---- MODULE Spec2Model ----
(***************************************************************************)
(* Debate Orchestration Engine of llm-council-v2: the App component's      *)
(* DebateState, its handlers, the runDebateStep effect and the sequences   *)
(* it starts, with the service layer (geminiService.ts) as operators.      *)
(*                                                                         *)
(* One action is one event-loop tick followed by React's render: all the   *)
(* setState(prev => ...) calls of a tick are applied in order to the       *)
(* current state.  A sequence started by runDebateStep keeps the `state`   *)
(* of the render that started it (its closure) in q.state.                 *)
(***************************************************************************)
EXTENDS Integers, Sequences, FiniteSets, TLC

VARIABLES
    state,              \* DebateState (useState)
    agents,             \* roster (useState)
    processingRef,      \* useRef(false)
    pendingToolCallRef, \* useRef(null): NULL or the pending tool's name
    seqs,               \* runDebateStep invocations suspended at an await
    effectPending,      \* a render changed the effect's dependencies
    fallacyJobs,        \* detectFallacies calls that will resolve with a finding
    followUps,          \* handleFollowUp calls suspended at their await
    currentConfig,      \* geminiService module state: provider
    openRouterPricing,  \* geminiService module state: price of the current model
    overrides,          \* number of user / director / reload interventions so far
    deviations,         \* number of provider failures and tool calls so far
    stopAwaited,        \* a stop was requested and advanceTurn has not run since
    votingPasses,       \* number of voting passes started so far
    verdictText         \* <<response.text>> of the verdict call of the latest voting
                        \* pass once it has returned, <<>> before

vars == <<state, agents, processingRef, pendingToolCallRef, seqs, effectPending,
          fallacyJobs, followUps, currentConfig, openRouterPricing, overrides,
          deviations, stopAwaited, votingPasses, verdictText>>

-----------------------------------------------------------------------------
(* Bounds *)

MaxAgents == 2
MaxMsgs == 7
MaxRoundsChoice == 2
MaxEvents == 2

-----------------------------------------------------------------------------
(* Values *)

NULL == "null"
ORCHESTRATOR == "ORCHESTRATOR"
CHAIRPERSON == "agent-chairperson"
GUEST == "guest"

AgentIds == <<"a1", "a2", "a3", "a4", "a5">>
MinAgents == 2

SETUP == "SETUP"
OPENING == "OPENING"
REBUTTAL == "REBUTTAL"
SYNTHESIS == "SYNTHESIS"
VOTING == "VOTING"
VERDICT == "VERDICT"
USER_INPUT == "USER_INPUT"

DebatePhase == {SETUP, OPENING, REBUTTAL, SYNTHESIS, VOTING, VERDICT, USER_INPUT}

Roster(n) == SubSeq(AgentIds, 1, n)
Range(s) == {s[i] : i \in 1..Len(s)}
RosterIds == Range(agents)

\* Prices in units of 10^-9 USD
PRICE_INPUT_1M == 75
PRICE_OUTPUT_1M == 300
PRICE_SEARCH_REQUEST == 35000000
PRICE_PERPLEXITY_REQUEST == 5000000

NoUsage == [promptTokenCount |-> 0, candidatesTokenCount |-> 0,
            prompt_tokens |-> 0, completion_tokens |-> 0, present |-> FALSE]
EmptyUsage == [NoUsage EXCEPT !.present = TRUE]

\* a || b on numbers: the first operand unless it is 0 / undefined
Or0(a, b) == IF a # 0 THEN a ELSE b

calculateCost(usage, searchQueries, perplexityCalls) ==
    IF ~usage.present THEN 0
    ELSE LET input == Or0(usage.promptTokenCount, usage.prompt_tokens)
             output == Or0(usage.candidatesTokenCount, usage.completion_tokens)
         IN IF currentConfig.provider = "OPENROUTER" /\ openRouterPricing # <<>>
            THEN input * openRouterPricing[1].prompt
                 + output * openRouterPricing[1].completion
                 + perplexityCalls * PRICE_PERPLEXITY_REQUEST
            ELSE input * PRICE_INPUT_1M + output * PRICE_OUTPUT_1M
                 + searchQueries * PRICE_SEARCH_REQUEST
                 + perplexityCalls * PRICE_PERPLEXITY_REQUEST

updateUsage(prev, usage, searchQueries, perplexityCalls) ==
    IF ~usage.present THEN prev
    ELSE [prev EXCEPT !.tokenUsage =
            [inputTokens |-> prev.tokenUsage.inputTokens + usage.promptTokenCount,
             outputTokens |-> prev.tokenUsage.outputTokens + usage.candidatesTokenCount,
             totalCost |-> prev.tokenUsage.totalCost
                           + calculateCost(usage, searchQueries, perplexityCalls)]]

INITIAL_STATE ==
    [mode |-> "AUTO",
     maxRounds |-> 2,
     currentRound |-> 1,
     phase |-> SETUP,
     currentTurnAgentId |-> NULL,
     transcript |-> <<>>,
     isThinking |-> FALSE,
     thinkingAgentId |-> NULL,
     pendingUserQuestion |-> NULL,
     tokenUsage |-> [inputTokens |-> 0, outputTokens |-> 0, totalCost |-> 0],
     userRequestedStop |-> FALSE,
     showConsultationPrompt |-> FALSE,
     summonedGuest |-> FALSE,
     contextDocuments |-> 0,
     finalVerdict |-> <<>>]

\* uuidv4(): an id no message of the transcript has
NewId(prev) == Len(prev.transcript) + 1

Message(id, agentId, content, phase, isGuest) ==
    [id |-> id, agentId |-> agentId, content |-> content, phase |-> phase,
     isGuest |-> isGuest, fallacy |-> FALSE]

\* addMessage's state update; phase is `phase || state.phase` of the caller's closure
\* faulty variant of addMessage: the new message is put in front
addMessageInFront(prev, agentId, content, phase, isGuest) ==
    [prev EXCEPT !.transcript =
        <<Message(NewId(prev), agentId, content, phase, isGuest)>> \o prev.transcript]

addMessage(prev, agentId, content, phase, isGuest) ==
    [prev EXCEPT !.transcript =
        Append(prev.transcript, Message(NewId(prev), agentId, content, phase, isGuest))]

\* faulty variant of updateMessageFallacy: the message is picked by position
updateMessageFallacyByIndex(prev, msgId) ==
    [prev EXCEPT !.transcript =
        [i \in 1..Len(prev.transcript) |->
            IF i = msgId
            THEN [prev.transcript[i] EXCEPT !.fallacy = TRUE]
            ELSE prev.transcript[i]]]

updateMessageFallacy(prev, msgId) ==
    [prev EXCEPT !.transcript =
        [i \in 1..Len(prev.transcript) |->
            IF prev.transcript[i].id = msgId
            THEN [prev.transcript[i] EXCEPT !.fallacy = TRUE]
            ELSE prev.transcript[i]]]

\* agents.findIndex(a => a.id === id), 1-based; 0 when absent
findIndex(id) ==
    IF \E i \in 1..Len(agents) : agents[i] = id
    THEN CHOOSE i \in 1..Len(agents) : agents[i] = id
    ELSE 0

\* faulty variant of advanceTurn: the round limit is compared with > instead of >=
advanceTurnOffByOne(prev) ==
    IF prev.userRequestedStop
    THEN [prev EXCEPT !.currentTurnAgentId = NULL, !.phase = VOTING, !.isThinking = FALSE]
    ELSE
    LET endOfCycle == findIndex(prev.currentTurnAgentId) + 1 > Len(agents)
        nextIndex == IF endOfCycle THEN 1 ELSE findIndex(prev.currentTurnAgentId) + 1
        loopBack == endOfCycle /\ prev.phase = SYNTHESIS /\ prev.mode = "FIXED"
                    /\ prev.currentRound <= prev.maxRounds
        nextPhase ==
            IF ~endOfCycle THEN prev.phase
            ELSE IF prev.phase = OPENING THEN REBUTTAL
            ELSE IF prev.phase = REBUTTAL THEN SYNTHESIS
            ELSE IF prev.phase = SYNTHESIS
                 THEN IF prev.mode = "FIXED"
                      THEN IF prev.currentRound > prev.maxRounds THEN VOTING ELSE REBUTTAL
                      ELSE prev.phase
            ELSE prev.phase
        nextRound == IF loopBack THEN prev.currentRound + 1 ELSE prev.currentRound
    IN IF endOfCycle /\ prev.phase = SYNTHESIS /\ prev.mode # "FIXED"
       THEN [prev EXCEPT !.currentTurnAgentId = ORCHESTRATOR, !.isThinking = FALSE]
       ELSE IF nextPhase = VOTING
       THEN [prev EXCEPT !.currentTurnAgentId = NULL, !.phase = nextPhase,
                         !.isThinking = FALSE]
       ELSE [prev EXCEPT !.currentTurnAgentId = agents[nextIndex],
                         !.phase = nextPhase,
                         !.currentRound = nextRound,
                         !.isThinking = FALSE,
                         !.thinkingAgentId = NULL]

\* faulty variant of advanceTurn: AUTO mode takes the FIXED decision at the end of SYNTHESIS
advanceTurnAutoLikeFixed(prev) ==
    IF prev.userRequestedStop
    THEN [prev EXCEPT !.currentTurnAgentId = NULL, !.phase = VOTING, !.isThinking = FALSE]
    ELSE
    LET endOfCycle == findIndex(prev.currentTurnAgentId) + 1 > Len(agents)
        nextIndex == IF endOfCycle THEN 1 ELSE findIndex(prev.currentTurnAgentId) + 1
        loopBack == endOfCycle /\ prev.phase = SYNTHESIS
                    /\ prev.currentRound < prev.maxRounds
        nextPhase ==
            IF ~endOfCycle THEN prev.phase
            ELSE IF prev.phase = OPENING THEN REBUTTAL
            ELSE IF prev.phase = REBUTTAL THEN SYNTHESIS
            ELSE IF prev.phase = SYNTHESIS
                 THEN IF prev.currentRound >= prev.maxRounds THEN VOTING ELSE REBUTTAL
            ELSE prev.phase
        nextRound == IF loopBack THEN prev.currentRound + 1 ELSE prev.currentRound
    IN IF FALSE
       THEN [prev EXCEPT !.currentTurnAgentId = ORCHESTRATOR, !.isThinking = FALSE]
       ELSE IF nextPhase = VOTING
       THEN [prev EXCEPT !.currentTurnAgentId = NULL, !.phase = nextPhase,
                         !.isThinking = FALSE]
       ELSE [prev EXCEPT !.currentTurnAgentId = agents[nextIndex],
                         !.phase = nextPhase,
                         !.currentRound = nextRound,
                         !.isThinking = FALSE,
                         !.thinkingAgentId = NULL]

\* faulty variant of advanceTurn: the end of REBUTTAL is taken for the end of the round
advanceTurnSkipsSynthesis(prev) ==
    IF prev.userRequestedStop
    THEN [prev EXCEPT !.currentTurnAgentId = NULL, !.phase = VOTING, !.isThinking = FALSE]
    ELSE
    LET endOfCycle == findIndex(prev.currentTurnAgentId) + 1 > Len(agents)
        nextIndex == IF endOfCycle THEN 1 ELSE findIndex(prev.currentTurnAgentId) + 1
        loopBack == endOfCycle /\ prev.phase \in {REBUTTAL, SYNTHESIS} /\ prev.mode = "FIXED"
                    /\ prev.currentRound < prev.maxRounds
        nextPhase ==
            IF ~endOfCycle THEN prev.phase
            ELSE IF prev.phase = OPENING THEN REBUTTAL
            ELSE IF prev.phase \in {REBUTTAL, SYNTHESIS}
                 THEN IF prev.mode = "FIXED"
                      THEN IF prev.currentRound >= prev.maxRounds THEN VOTING ELSE REBUTTAL
                      ELSE prev.phase
            ELSE prev.phase
        nextRound == IF loopBack THEN prev.currentRound + 1 ELSE prev.currentRound
    IN IF endOfCycle /\ prev.phase \in {REBUTTAL, SYNTHESIS} /\ prev.mode # "FIXED"
       THEN [prev EXCEPT !.currentTurnAgentId = ORCHESTRATOR, !.isThinking = FALSE]
       ELSE IF nextPhase = VOTING
       THEN [prev EXCEPT !.currentTurnAgentId = NULL, !.phase = nextPhase,
                         !.isThinking = FALSE]
       ELSE [prev EXCEPT !.currentTurnAgentId = agents[nextIndex],
                         !.phase = nextPhase,
                         !.currentRound = nextRound,
                         !.isThinking = FALSE,
                         !.thinkingAgentId = NULL]

advanceTurn(prev) ==
    IF prev.userRequestedStop
    THEN [prev EXCEPT !.currentTurnAgentId = NULL, !.phase = VOTING, !.isThinking = FALSE]
    ELSE
    LET endOfCycle == findIndex(prev.currentTurnAgentId) + 1 > Len(agents)
        nextIndex == IF endOfCycle THEN 1 ELSE findIndex(prev.currentTurnAgentId) + 1
        loopBack == endOfCycle /\ prev.phase = SYNTHESIS /\ prev.mode = "FIXED"
                    /\ prev.currentRound < prev.maxRounds
        nextPhase ==
            IF ~endOfCycle THEN prev.phase
            ELSE IF prev.phase = OPENING THEN REBUTTAL
            ELSE IF prev.phase = REBUTTAL THEN SYNTHESIS
            ELSE IF prev.phase = SYNTHESIS
                 THEN IF prev.mode = "FIXED"
                      THEN IF prev.currentRound >= prev.maxRounds THEN VOTING ELSE REBUTTAL
                      ELSE prev.phase
            ELSE prev.phase
        nextRound == IF loopBack THEN prev.currentRound + 1 ELSE prev.currentRound
    IN IF endOfCycle /\ prev.phase = SYNTHESIS /\ prev.mode # "FIXED"
       THEN [prev EXCEPT !.currentTurnAgentId = ORCHESTRATOR, !.isThinking = FALSE]
       ELSE IF nextPhase = VOTING
       THEN [prev EXCEPT !.currentTurnAgentId = NULL, !.phase = nextPhase,
                         !.isThinking = FALSE]
       ELSE [prev EXCEPT !.currentTurnAgentId = agents[nextIndex],
                         !.phase = nextPhase,
                         !.currentRound = nextRound,
                         !.isThinking = FALSE,
                         !.thinkingAgentId = NULL]

\* dependency list of the orchestration effect
Deps(s) == <<s.phase, s.currentTurnAgentId, s.isThinking, Len(s.transcript),
             s.showConsultationPrompt>>


-----------------------------------------------------------------------------
(* Provider outputs *)

\* usage counters of a completed call, in the naming of the active provider
CallUsage ==
    IF currentConfig.provider = "GOOGLE"
    THEN [EmptyUsage EXCEPT !.promptTokenCount = 1, !.candidatesTokenCount = 1]
    ELSE [EmptyUsage EXCEPT !.prompt_tokens = 1, !.completion_tokens = 1]

\* tools declared to the provider by generateAgentTurn
DeclaredTools ==
    IF currentConfig.provider = "GOOGLE" THEN {"askUser"}
    ELSE IF currentConfig.perplexityApiKey THEN {"askUser", "search_web"}
    ELSE {"askUser"}

\* json.targetAgentId of a vote: an id of the roster, a string that is no id,
\* or absent (also: unparsable text)
VoteTargets == RosterIds \cup {"The Skeptic", ""}
\* json.winnerId of the verdict
VerdictWinners == RosterIds \cup {"The Skeptic", ""}

castVote(agent, target) ==
    LET candidates == SelectSeq(agents, LAMBDA a : a # agent)
    IN [voterId |-> agent,
        targetAgentId |-> IF target # "" THEN target ELSE candidates[1]]

\* response.text of the verdict call: an object with its fields, text
\* JSON.parse rejects, no text at all, or the JSON value null
\* ("" / FALSE = the field is absent)
VerdictTexts ==
    [form : {"object"}, winnerId : VerdictWinners \ {""},
     summary : {TRUE}, keyTakeaways : {TRUE}]
    \cup [form : {"unparsable", "empty", "null"}, winnerId : {""},
          summary : {FALSE}, keyTakeaways : {FALSE}]

\* `json` after the try/catch around JSON.parse(cleanText || '{}'):
\* <<fields>> for an object ({} when the parse threw or there was no text),
\* <<>> for null
parseVerdict(text) ==
    IF text.form = "null" THEN <<>>
    ELSE <<[winnerId |-> text.winnerId, summary |-> text.summary,
            keyTakeaways |-> text.keyTakeaways]>>

\* reading json.winnerId of null throws outside the try/catch
VerdictThrows(text) == parseVerdict(text) = <<>>

generateFinalVerdict(text, votes) ==
    LET json == parseVerdict(text)[1]
    IN [winnerId |-> IF json.winnerId # "" THEN json.winnerId ELSE agents[1],
        summary |-> IF json.summary THEN "summary" ELSE "Debate concluded.",
        keyTakeaways |-> IF json.keyTakeaways THEN <<"takeaway">> ELSE <<>>,
        votes |-> votes]

\* orchestratorDecide's shouldConclude: json.shouldConclude || currentRound > 5
shouldConclude(jsonConclude, currentRound) == jsonConclude \/ currentRound > 5

-----------------------------------------------------------------------------
(* The orchestration effect: runDebateStep *)

Snapshot(s) ==
    [phase |-> s.phase, currentTurnAgentId |-> s.currentTurnAgentId,
     currentRound |-> s.currentRound, userRequestedStop |-> s.userRequestedStop]

Sequence(pc, s, agent) ==
    [pc |-> pc, state |-> Snapshot(s), agent |-> agent, i |-> 1, votes |-> <<>>]

\* the render after a tick: state replaced, the effect rescheduled if a dependency changed
Render(next) ==
    /\ state' = next
    /\ effectPending' = (Deps(next) # Deps(state))

Quiet == ~effectPending

VotingDue(s) == s.phase = VOTING /\ ~s.isThinking /\ s.finalVerdict = <<>>
OrchestratorDue(s) == s.currentTurnAgentId = ORCHESTRATOR
NoTurn(s) == s.currentTurnAgentId = NULL \/ s.phase = VERDICT
Paused(s) == s.pendingUserQuestion # NULL \/ s.showConsultationPrompt

\* every early return of runDebateStep
StepReturns ==
    /\ effectPending
    /\ \/ processingRef
       \/ Paused(state)
       \/ /\ ~VotingDue(state) /\ ~OrchestratorDue(state)
          /\ \/ NoTurn(state)
             \/ state.isThinking /\ pendingToolCallRef = NULL
    /\ effectPending' = FALSE
    /\ UNCHANGED <<state, agents, processingRef, pendingToolCallRef, seqs, fallacyJobs,
                   followUps, currentConfig, openRouterPricing, overrides, deviations,
                   stopAwaited,
                   votingPasses, verdictText>>

\* faulty variant of StepVoting: the `!state.finalVerdict` test is missing
StepVotingIgnoresVerdict ==
    /\ effectPending /\ ~processingRef /\ ~Paused(state)
    /\ state.phase = VOTING /\ ~state.isThinking
    /\ processingRef' = TRUE
    /\ votingPasses' = votingPasses + 1
    /\ verdictText' = <<>>
    /\ Render([state EXCEPT !.isThinking = TRUE])
    /\ seqs' = seqs \cup {Sequence(IF Len(agents) > 0 THEN "vote" ELSE "verdict", state, NULL)}
    /\ UNCHANGED <<agents, pendingToolCallRef, fallacyJobs, followUps, currentConfig,
                   openRouterPricing, overrides, deviations, stopAwaited>>

StepVoting ==
    /\ effectPending /\ ~processingRef /\ ~Paused(state)
    /\ VotingDue(state)
    /\ processingRef' = TRUE
    /\ votingPasses' = votingPasses + 1
    /\ verdictText' = <<>>
    /\ Render([state EXCEPT !.isThinking = TRUE])
    /\ seqs' = seqs \cup {Sequence(IF Len(agents) > 0 THEN "vote" ELSE "verdict", state, NULL)}
    /\ UNCHANGED <<agents, pendingToolCallRef, fallacyJobs, followUps, currentConfig,
                   openRouterPricing, overrides, deviations, stopAwaited>>

StepOrchestrator ==
    /\ effectPending /\ ~processingRef /\ ~Paused(state)
    /\ ~VotingDue(state)
    /\ OrchestratorDue(state)
    /\ processingRef' = TRUE
    /\ Render([state EXCEPT !.isThinking = TRUE])
    /\ seqs' = seqs \cup {Sequence("orchestrator", state, NULL)}
    /\ UNCHANGED <<agents, pendingToolCallRef, fallacyJobs, followUps, currentConfig,
                   openRouterPricing, overrides, deviations, stopAwaited,
                   votingPasses, verdictText>>

StepResumeFromTool ==
    /\ effectPending /\ ~processingRef /\ ~Paused(state)
    /\ ~VotingDue(state) /\ ~OrchestratorDue(state) /\ ~NoTurn(state)
    /\ pendingToolCallRef # NULL /\ state.isThinking
    /\ processingRef' = TRUE
    /\ effectPending' = FALSE
    /\ seqs' = IF findIndex(state.currentTurnAgentId) = 0 THEN seqs
               ELSE seqs \cup {Sequence("resume", state, state.currentTurnAgentId)}
    /\ UNCHANGED <<state, agents, pendingToolCallRef, fallacyJobs, followUps,
                   currentConfig, openRouterPricing, overrides, deviations, stopAwaited,
                   votingPasses, verdictText>>

\* faulty variant of StepStartTurn: no turn starts while an analysis is outstanding
StepStartTurnAwaitsAnalyses ==
    /\ effectPending /\ ~processingRef /\ ~Paused(state)
    /\ ~VotingDue(state) /\ ~OrchestratorDue(state) /\ ~NoTurn(state)
    /\ ~state.isThinking
    /\ fallacyJobs = {}
    /\ Render([state EXCEPT !.isThinking = TRUE,
                            !.thinkingAgentId = state.currentTurnAgentId])
    /\ IF findIndex(state.currentTurnAgentId) = 0
       THEN processingRef' = FALSE /\ seqs' = seqs
       ELSE /\ processingRef' = TRUE
            /\ seqs' = seqs \cup {Sequence("turn", state, state.currentTurnAgentId)}
    /\ UNCHANGED <<agents, pendingToolCallRef, fallacyJobs, followUps, currentConfig,
                   openRouterPricing, overrides, deviations, stopAwaited, votingPasses, verdictText>>

\* faulty variant of StepStartTurn: the pause guards are missing
StepStartTurnIgnoresPause ==
    /\ effectPending /\ ~processingRef
    /\ ~VotingDue(state) /\ ~OrchestratorDue(state) /\ ~NoTurn(state)
    /\ ~state.isThinking
    /\ Render([state EXCEPT !.isThinking = TRUE,
                            !.thinkingAgentId = state.currentTurnAgentId])
    /\ IF findIndex(state.currentTurnAgentId) = 0
       THEN processingRef' = FALSE /\ seqs' = seqs
       ELSE /\ processingRef' = TRUE
            /\ seqs' = seqs \cup {Sequence("turn", state, state.currentTurnAgentId)}
    /\ UNCHANGED <<agents, pendingToolCallRef, fallacyJobs, followUps, currentConfig,
                   openRouterPricing, overrides, deviations, stopAwaited,
                   votingPasses, verdictText>>

\* faulty variant of StepStartTurn: the processingRef guard is missing
StepStartTurnUnguarded ==
    /\ effectPending /\ ~Paused(state)
    /\ ~VotingDue(state) /\ ~OrchestratorDue(state) /\ ~NoTurn(state)
    /\ ~state.isThinking
    /\ Render([state EXCEPT !.isThinking = TRUE,
                            !.thinkingAgentId = state.currentTurnAgentId])
    /\ IF findIndex(state.currentTurnAgentId) = 0
       THEN processingRef' = FALSE /\ seqs' = seqs
       ELSE /\ processingRef' = TRUE
            /\ seqs' = seqs \cup {Sequence("turn", state, state.currentTurnAgentId)}
    /\ UNCHANGED <<agents, pendingToolCallRef, fallacyJobs, followUps, currentConfig,
                   openRouterPricing, overrides, deviations, stopAwaited,
                   votingPasses, verdictText>>

StepStartTurn ==
    /\ effectPending /\ ~processingRef /\ ~Paused(state)
    /\ ~VotingDue(state) /\ ~OrchestratorDue(state) /\ ~NoTurn(state)
    /\ ~state.isThinking
    /\ Render([state EXCEPT !.isThinking = TRUE,
                            !.thinkingAgentId = state.currentTurnAgentId])
    /\ IF findIndex(state.currentTurnAgentId) = 0
       THEN processingRef' = FALSE /\ seqs' = seqs
       ELSE /\ processingRef' = TRUE
            /\ seqs' = seqs \cup {Sequence("turn", state, state.currentTurnAgentId)}
    /\ UNCHANGED <<agents, pendingToolCallRef, fallacyJobs, followUps, currentConfig,
                   openRouterPricing, overrides, deviations, stopAwaited,
                   votingPasses, verdictText>>

runDebateStep ==
    \/ StepReturns
    \/ StepVoting
    \/ StepOrchestrator
    \/ StepResumeFromTool
    \/ StepStartTurn


-----------------------------------------------------------------------------
(* Continuations of a sequence: one action per await that resolves *)

CanAppend(k) == Len(state.transcript) + k <= MaxMsgs

\* A run has at most MaxEvents events off the plain path: interventions of the user
\* or director, provider failures and tool calls, fallacy findings.
Found == {i \in 1..Len(state.transcript) : state.transcript[i].fallacy}
Events == overrides + deviations + Cardinality(fallacyJobs) + Cardinality(Found)
MayDeviate == Events < MaxEvents
MayFindFallacy == Events < MaxEvents
Deviate(d) == deviations' = IF d THEN deviations + 1 ELSE deviations

\* detectFallacies(text).then(...): launched detached; tracked when it will find a fallacy
Launch(msgId, finds) == fallacyJobs' = IF finds THEN fallacyJobs \cup {msgId} ELSE fallacyJobs

Finish(q) == seqs' = seqs \ {q} /\ processingRef' = FALSE
Continue(q, pc) == seqs' = (seqs \ {q}) \cup {[q EXCEPT !.pc = pc]} /\ UNCHANGED processingRef

\* the advanceTurn() call of a tick, applied after the tick's earlier updates
AdvanceTurnCalled(s) ==
    /\ Render(advanceTurn(s))
    /\ stopAwaited' = FALSE

\* faulty variant of VoteResult: a vote that succeeded is pushed twice
VoteResultPushesTwice(q) ==
    /\ Quiet /\ q.pc = "vote"
    /\ \E ok \in BOOLEAN, target \in VoteTargets :
        /\ ~ok => (MayDeviate /\ target = "")
        /\ Deviate(~ok)
        /\ LET vote == castVote(agents[q.i], target)
               votes == IF ok THEN Append(Append(q.votes, vote), vote) ELSE q.votes
           IN seqs' = (seqs \ {q}) \cup
                      {[q EXCEPT !.i = q.i + 1, !.votes = votes,
                                 !.pc = IF q.i + 1 > Len(agents) THEN "verdict" ELSE "vote"]}
        /\ Render(IF ok THEN updateUsage(state, CallUsage, 0, 0) ELSE state)
    /\ UNCHANGED <<agents, processingRef, pendingToolCallRef, fallacyJobs, followUps,
                   currentConfig, openRouterPricing, overrides, stopAwaited,
                   votingPasses, verdictText>>

\* faulty variant of VoteResult: a failed vote call ends the voting pass
VoteResultAbortsOnFailure(q) ==
    /\ Quiet /\ q.pc = "vote"
    /\ \E ok \in BOOLEAN, target \in VoteTargets :
        /\ ~ok => (MayDeviate /\ target = "")
        /\ Deviate(~ok)
        /\ IF ok
           THEN /\ seqs' = (seqs \ {q}) \cup
                      {[q EXCEPT !.i = q.i + 1,
                                 !.votes = Append(q.votes, castVote(agents[q.i], target)),
                                 !.pc = IF q.i + 1 > Len(agents) THEN "verdict" ELSE "vote"]}
                /\ UNCHANGED processingRef
           ELSE Finish(q)
        /\ Render(IF ok THEN updateUsage(state, CallUsage, 0, 0) ELSE state)
    /\ UNCHANGED <<agents, pendingToolCallRef, fallacyJobs, followUps,
                   currentConfig, openRouterPricing, overrides, stopAwaited,
                   votingPasses, verdictText>>

\* 1. Voting: `await delay; await castVote(agent)` for agents[q.i]
VoteResult(q) ==
    /\ Quiet /\ q.pc = "vote"
    /\ \E ok \in BOOLEAN, target \in VoteTargets :
        /\ ~ok => (MayDeviate /\ target = "")
        /\ Deviate(~ok)
        /\ LET votes == IF ok THEN Append(q.votes, castVote(agents[q.i], target))
                        ELSE q.votes
           IN seqs' = (seqs \ {q}) \cup
                      {[q EXCEPT !.i = q.i + 1, !.votes = votes,
                                 !.pc = IF q.i + 1 > Len(agents) THEN "verdict" ELSE "vote"]}
        /\ Render(IF ok THEN updateUsage(state, CallUsage, 0, 0) ELSE state)
    /\ UNCHANGED <<agents, processingRef, pendingToolCallRef, fallacyJobs, followUps,
                   currentConfig, openRouterPricing, overrides, stopAwaited,
                   votingPasses, verdictText>>

\* `await generateFinalVerdict(...)`
VerdictResult(q) ==
    /\ Quiet /\ q.pc = "verdict"
    /\ \E ok \in BOOLEAN, text \in VerdictTexts :
        /\ ~ok => (MayDeviate /\ text.form = "empty")
        /\ VerdictThrows(text) => MayDeviate
        /\ Deviate(~ok \/ VerdictThrows(text))
        /\ verdictText' = IF ok THEN <<text>> ELSE verdictText
        /\ Render(IF ok /\ ~VerdictThrows(text)
                  THEN [updateUsage(state, CallUsage, 0, 0) EXCEPT
                            !.phase = VERDICT, !.isThinking = FALSE,
                            !.finalVerdict = <<generateFinalVerdict(text, q.votes)>>]
                  ELSE state)
    /\ Finish(q)
    /\ UNCHANGED <<agents, pendingToolCallRef, fallacyJobs, followUps, currentConfig,
                   openRouterPricing, overrides, stopAwaited,
                   votingPasses>>

\* 2. `await orchestratorDecide(...)` throws
OrchestratorFails(q) ==
    /\ Quiet /\ q.pc = "orchestrator"
    /\ MayDeviate /\ Deviate(TRUE)
    /\ Render([state EXCEPT !.currentTurnAgentId = agents[1], !.phase = REBUTTAL,
                            !.isThinking = FALSE])
    /\ Finish(q)
    /\ UNCHANGED <<agents, pendingToolCallRef, fallacyJobs, followUps, currentConfig,
                   openRouterPricing, overrides, stopAwaited,
                   votingPasses, verdictText>>

OrchestratorConcludes(prev, q) ==
    [addMessage(prev, "system", "concluding", q.state.phase, FALSE) EXCEPT
        !.currentTurnAgentId = NULL, !.phase = VOTING, !.isThinking = FALSE]

OrchestratorSummons(prev, q) ==
    [addMessage(prev, CHAIRPERSON, "summoning", q.state.phase, FALSE) EXCEPT
        !.summonedGuest = TRUE]

OrchestratorConsults(prev, q) ==
    [addMessage(prev, CHAIRPERSON, "guidance", q.state.phase, FALSE) EXCEPT
        !.isThinking = FALSE, !.showConsultationPrompt = TRUE]

\* faulty variant of OrchestratorContinues: the round is not incremented
OrchestratorContinuesSameRound(prev, q) ==
    [addMessage(prev, CHAIRPERSON, "guidance", q.state.phase, FALSE) EXCEPT
        !.currentTurnAgentId = agents[1], !.phase = REBUTTAL, !.isThinking = FALSE]

OrchestratorContinues(prev, q) ==
    [addMessage(prev, CHAIRPERSON, "guidance", q.state.phase, FALSE) EXCEPT
        !.currentTurnAgentId = agents[1], !.phase = REBUTTAL,
        !.currentRound = prev.currentRound + 1, !.isThinking = FALSE]

\* `await orchestratorDecide(...)` returns a decision
OrchestratorDecides(q) ==
    /\ Quiet /\ q.pc = "orchestrator" /\ CanAppend(1)
    /\ \E jsonConclude \in BOOLEAN, shouldConsultUser \in BOOLEAN, summonGuest \in BOOLEAN :
        LET prev == updateUsage(state, CallUsage, 0, 0)
        IN IF shouldConclude(jsonConclude, q.state.currentRound) \/ q.state.userRequestedStop
           THEN Render(OrchestratorConcludes(prev, q)) /\ Finish(q)
           ELSE IF summonGuest
           THEN Render(OrchestratorSummons(prev, q)) /\ Continue(q, "guest")
           ELSE IF shouldConsultUser
           THEN Render(OrchestratorConsults(prev, q)) /\ Finish(q)
           ELSE Render(OrchestratorContinues(prev, q)) /\ Finish(q)
    /\ UNCHANGED <<agents, pendingToolCallRef, fallacyJobs, followUps, currentConfig,
                   openRouterPricing, overrides, deviations, stopAwaited,
                   votingPasses, verdictText>>

\* faulty variant of GuestSpoke: the turn stays with the orchestrator after the guest
GuestSpokeBackToOrchestrator(prev, q, content) ==
    [addMessage(prev, GUEST, content, q.state.phase, TRUE) EXCEPT
        !.summonedGuest = FALSE, !.isThinking = FALSE]

GuestSpoke(prev, q, content) ==
    [addMessage(prev, GUEST, content, q.state.phase, TRUE) EXCEPT
        !.summonedGuest = FALSE, !.currentTurnAgentId = agents[1], !.phase = REBUTTAL,
        !.currentRound = prev.currentRound + 1, !.isThinking = FALSE]

\* `await generateAgentTurn(guest, ...)`: text, or the filler of a failed call
GuestResult(q) ==
    /\ Quiet /\ q.pc = "guest" /\ CanAppend(1)
    /\ \E ok \in BOOLEAN, finds \in BOOLEAN :
        /\ ~ok => MayDeviate
        /\ finds => (ok /\ MayFindFallacy)
        /\ Deviate(~ok)
        /\ Launch(NewId(state), finds)
        /\ Render(GuestSpoke(updateUsage(state, IF ok THEN CallUsage ELSE EmptyUsage, 0, 0),
                             q, IF ok THEN "text" ELSE "filler"))
    /\ Finish(q)
    /\ UNCHANGED <<agents, pendingToolCallRef, followUps, currentConfig,
                   openRouterPricing, overrides, stopAwaited,
                   votingPasses, verdictText>>

\* 3. Resume from Tool: `await generateToolResponse(...)`
ToolResumeResult(q) ==
    /\ Quiet /\ q.pc = "resume"
    /\ \E ok \in BOOLEAN, finds \in BOOLEAN :
        /\ ~ok => MayDeviate
        /\ ok => CanAppend(1)
        /\ finds => (ok /\ MayFindFallacy)
        /\ Deviate(~ok)
        /\ Launch(NewId(state), finds)
        /\ IF ok
           THEN /\ pendingToolCallRef' = NULL
                /\ AdvanceTurnCalled(addMessage(updateUsage(state, CallUsage, 0, 0),
                                                q.agent, "text", q.state.phase, FALSE))
           ELSE UNCHANGED <<pendingToolCallRef, state, effectPending, stopAwaited>>
    /\ Finish(q)
    /\ UNCHANGED <<agents, followUps, currentConfig, openRouterPricing, overrides,
                   votingPasses, verdictText>>

AskedUser(prev) ==
    [prev EXCEPT !.isThinking = FALSE, !.phase = USER_INPUT,
                 !.pendingUserQuestion = "question"]

\* Start Turn: `await generateAgentTurn(agent, ...)` returns text (or its filler)
TurnText(q) ==
    /\ Quiet /\ q.pc = "turn" /\ CanAppend(1)
    /\ \E ok \in BOOLEAN, finds \in BOOLEAN :
        /\ ~ok => MayDeviate
        /\ finds => (ok /\ MayFindFallacy)
        /\ Deviate(~ok)
        /\ Launch(NewId(state), finds)
        /\ AdvanceTurnCalled(addMessage(
               updateUsage(state, IF ok THEN CallUsage ELSE EmptyUsage, 0, 0),
               q.agent, IF ok THEN "text" ELSE "filler", q.state.phase, FALSE))
    /\ Finish(q)
    /\ UNCHANGED <<agents, pendingToolCallRef, followUps, currentConfig,
                   openRouterPricing, overrides,
                   votingPasses, verdictText>>

\* ... returns the askUser tool call
TurnAsksUser(q) ==
    /\ Quiet /\ q.pc = "turn"
    /\ "askUser" \in DeclaredTools
    /\ MayDeviate /\ Deviate(TRUE)
    /\ pendingToolCallRef' = "askUser"
    /\ Render(AskedUser(updateUsage(state, CallUsage, 0, 0)))
    /\ Finish(q)
    /\ UNCHANGED <<agents, fallacyJobs, followUps, currentConfig, openRouterPricing,
                   overrides, stopAwaited,
                   votingPasses, verdictText>>

\* ... returns the search_web tool call: `await performPerplexitySearch(query)` follows
TurnSearches(q) ==
    /\ Quiet /\ q.pc = "turn"
    /\ "search_web" \in DeclaredTools
    /\ MayDeviate /\ Deviate(TRUE)
    /\ Continue(q, "search")
    /\ UNCHANGED <<state, effectPending, agents, pendingToolCallRef, fallacyJobs,
                   followUps, currentConfig, openRouterPricing, overrides, stopAwaited,
                   votingPasses, verdictText>>

\* faulty variant of SearchResult: the search result suspends the turn as askUser does
SearchResultSuspends(q) ==
    /\ Quiet /\ q.pc = "search"
    /\ pendingToolCallRef' = "search_web"
    /\ Render(AskedUser(updateUsage(state, CallUsage, 0, 1)))
    /\ Finish(q)
    /\ UNCHANGED <<agents, fallacyJobs, followUps, currentConfig, openRouterPricing,
                   overrides, deviations, stopAwaited, votingPasses, verdictText>>

\* performPerplexitySearch resolved (it never rejects): `await generateToolResponse` follows
SearchResult(q) ==
    /\ Quiet /\ q.pc = "search"
    /\ pendingToolCallRef' = "search_web"
    /\ Render(updateUsage(state, CallUsage, 0, 1))
    /\ Continue(q, "searchResume")
    /\ UNCHANGED <<agents, fallacyJobs, followUps, currentConfig, openRouterPricing,
                   overrides, deviations, stopAwaited,
                   votingPasses, verdictText>>

\* the inline generateToolResponse of the search_web branch; a rejection goes to the catch
SearchResumeResult(q) ==
    /\ Quiet /\ q.pc = "searchResume"
    /\ \E ok \in BOOLEAN, finds \in BOOLEAN :
        /\ ~ok => MayDeviate
        /\ ok => CanAppend(1)
        /\ finds => (ok /\ MayFindFallacy)
        /\ Deviate(~ok)
        /\ Launch(NewId(state), finds)
        /\ AdvanceTurnCalled(IF ok
                             THEN addMessage(updateUsage(state, CallUsage, 0, 0),
                                             q.agent, "text", q.state.phase, FALSE)
                             ELSE state)
    /\ Finish(q)
    /\ UNCHANGED <<agents, pendingToolCallRef, followUps, currentConfig,
                   openRouterPricing, overrides,
                   votingPasses, verdictText>>

\* a detached detectFallacies call resolves with a finding
FallacyResult(m) ==
    /\ Quiet /\ m \in fallacyJobs
    /\ fallacyJobs' = fallacyJobs \ {m}
    /\ Render(updateMessageFallacy(updateUsage(state, CallUsage, 0, 0), m))
    /\ UNCHANGED <<agents, processingRef, pendingToolCallRef, seqs, followUps,
                   currentConfig, openRouterPricing, overrides, deviations, stopAwaited,
                   votingPasses, verdictText>>


-----------------------------------------------------------------------------
(* Handlers: user, director and persistence *)

Started == state.phase # SETUP
MayOverride == Events < MaxEvents

handleStart(n, mode, maxRounds, hasContext) ==
    [INITIAL_STATE EXCEPT !.mode = mode, !.maxRounds = maxRounds, !.phase = OPENING,
                          !.currentTurnAgentId = Roster(n)[1],
                          !.contextDocuments = IF hasContext THEN 1 ELSE 0]

\* ConfigView's start button (canStart: at least MinAgents agents selected)
HandleStart ==
    /\ Quiet /\ ~Started
    /\ \E n \in MinAgents..MaxAgents, mode \in {"FIXED", "AUTO"},
          maxRounds \in 1..MaxRoundsChoice, hasContext \in {FALSE} :
        /\ mode = "AUTO" => maxRounds = INITIAL_STATE.maxRounds
        /\ agents' = Roster(n)
        /\ Render(handleStart(n, mode, maxRounds, hasContext))
    /\ UNCHANGED <<processingRef, pendingToolCallRef, seqs, fallacyJobs, followUps,
                   currentConfig, openRouterPricing, overrides, deviations, stopAwaited,
                   votingPasses, verdictText>>

\* faulty variant of handleUserAnswer: the feedback does not open the next round
handleUserAnswerSameRound(prev) ==
    LET answered == addMessage(prev, "user", "answer", USER_INPUT, FALSE)
    IN IF state.thinkingAgentId = CHAIRPERSON
       THEN [answered EXCEPT !.pendingUserQuestion = NULL, !.isThinking = FALSE,
                             !.phase = REBUTTAL, !.currentTurnAgentId = agents[1]]
       ELSE [answered EXCEPT !.pendingUserQuestion = NULL,
                             !.phase = answered.transcript[Len(answered.transcript)].phase,
                             !.isThinking = TRUE]

handleUserAnswer(prev) ==
    LET answered == addMessage(prev, "user", "answer", USER_INPUT, FALSE)
    IN IF state.thinkingAgentId = CHAIRPERSON
       THEN [answered EXCEPT !.pendingUserQuestion = NULL, !.isThinking = FALSE,
                             !.phase = REBUTTAL, !.currentTurnAgentId = agents[1],
                             !.currentRound = answered.currentRound + 1]
       ELSE [answered EXCEPT !.pendingUserQuestion = NULL,
                             !.phase = answered.transcript[Len(answered.transcript)].phase,
                             !.isThinking = TRUE]

\* "submit answer to pending question"; returns at once when nothing is pending
\* faulty variant of HandleUserAnswer: the pendingUserQuestion test is missing
HandleUserAnswerWithoutQuestion ==
    /\ Quiet /\ Started
    /\ IF state.thinkingAgentId = NULL
       THEN UNCHANGED <<state, effectPending>>
       ELSE CanAppend(1) /\ Render(handleUserAnswer(state))
    /\ UNCHANGED <<agents, processingRef, pendingToolCallRef, seqs, fallacyJobs, followUps,
                   currentConfig, openRouterPricing, overrides, deviations, stopAwaited,
                   votingPasses, verdictText>>

HandleUserAnswer ==
    /\ Quiet /\ Started
    /\ IF state.pendingUserQuestion = NULL \/ state.thinkingAgentId = NULL
       THEN UNCHANGED <<state, effectPending>>
       ELSE CanAppend(1) /\ Render(handleUserAnswer(state))
    /\ UNCHANGED <<agents, processingRef, pendingToolCallRef, seqs, fallacyJobs, followUps,
                   currentConfig, openRouterPricing, overrides, deviations, stopAwaited,
                   votingPasses, verdictText>>

\* faulty variant of handleConsultationChoice: declining steps the round back
handleConsultationChoiceStepsBack(prev, accepted) ==
    IF ~accepted
    THEN [prev EXCEPT !.showConsultationPrompt = FALSE, !.phase = REBUTTAL,
                      !.currentTurnAgentId = agents[1],
                      !.currentRound = prev.currentRound - 1, !.isThinking = FALSE]
    ELSE [prev EXCEPT !.showConsultationPrompt = FALSE,
                      !.pendingUserQuestion = "The floor is yours.",
                      !.thinkingAgentId = CHAIRPERSON]

handleConsultationChoice(prev, accepted) ==
    IF ~accepted
    THEN [prev EXCEPT !.showConsultationPrompt = FALSE, !.phase = REBUTTAL,
                      !.currentTurnAgentId = agents[1],
                      !.currentRound = prev.currentRound + 1, !.isThinking = FALSE]
    ELSE [prev EXCEPT !.showConsultationPrompt = FALSE,
                      !.pendingUserQuestion = "The floor is yours.",
                      !.thinkingAgentId = CHAIRPERSON]

\* ConsultationPrompt's buttons, or its timer declining after 10 s
HandleConsultationChoice ==
    /\ Quiet /\ Started /\ state.showConsultationPrompt
    /\ \E accepted \in BOOLEAN : Render(handleConsultationChoice(state, accepted))
    /\ UNCHANGED <<agents, processingRef, pendingToolCallRef, seqs, fallacyJobs, followUps,
                   currentConfig, openRouterPricing, overrides, deviations, stopAwaited,
                   votingPasses, verdictText>>

handleStop(prev) ==
    addMessage([prev EXCEPT !.userRequestedStop = TRUE], "system", "stop requested",
               state.phase, FALSE)

HandleStop ==
    /\ Quiet /\ Started /\ state.phase # VERDICT
    /\ MayOverride /\ CanAppend(1)
    /\ overrides' = overrides + 1
    /\ stopAwaited' = TRUE
    /\ Render(handleStop(state))
    /\ UNCHANGED <<agents, processingRef, pendingToolCallRef, seqs, fallacyJobs, followUps,
                   currentConfig, openRouterPricing, deviations,
                   votingPasses, verdictText>>

\* handleFollowUp up to its await
HandleFollowUp ==
    /\ Quiet /\ Started /\ state.finalVerdict # <<>>
    /\ MayOverride /\ CanAppend(1)
    /\ overrides' = overrides + 1
    /\ followUps' = Append(followUps, state.phase)
    /\ Render([addMessage(state, "user", "question", state.phase, FALSE) EXCEPT
                  !.isThinking = TRUE])
    /\ UNCHANGED <<agents, processingRef, pendingToolCallRef, seqs, fallacyJobs,
                   currentConfig, openRouterPricing, deviations, stopAwaited,
                   votingPasses, verdictText>>

\* `await generateFollowUp(...)` resolves or rejects; the finally clears isThinking
FollowUpResult(k) ==
    /\ Quiet /\ k \in 1..Len(followUps)
    /\ \E ok \in BOOLEAN :
        /\ ~ok => MayDeviate
        /\ ok => CanAppend(1)
        /\ Deviate(~ok)
        /\ Render([(IF ok
                    THEN addMessage(updateUsage(state, CallUsage, 0, 0), CHAIRPERSON,
                                    "text", followUps[k], FALSE)
                    ELSE state) EXCEPT !.isThinking = FALSE])
    /\ followUps' = [j \in 1..(Len(followUps) - 1) |->
                        IF j < k THEN followUps[j] ELSE followUps[j + 1]]
    /\ UNCHANGED <<agents, processingRef, pendingToolCallRef, seqs, fallacyJobs,
                   currentConfig, openRouterPricing, overrides, stopAwaited,
                   votingPasses, verdictText>>

Director == Quiet /\ Started /\ MayOverride /\ overrides' = overrides + 1

HandleDirectorInject ==
    /\ Director /\ CanAppend(1)
    /\ Render(addMessage(state, "system", "director override", state.phase, FALSE))
    /\ UNCHANGED <<agents, processingRef, pendingToolCallRef, seqs, fallacyJobs, followUps,
                   currentConfig, openRouterPricing, deviations, stopAwaited,
                   votingPasses, verdictText>>

handleDirectorForcePhase(prev, phase) ==
    [prev EXCEPT !.phase = phase,
                 !.currentTurnAgentId = IF phase = VOTING THEN NULL ELSE agents[1],
                 !.isThinking = FALSE,
                 !.userRequestedStop = FALSE]

\* the DirectorConsole's three phase buttons
HandleDirectorForcePhase ==
    /\ Director
    /\ \E phase \in {REBUTTAL, SYNTHESIS, VOTING} :
        Render(handleDirectorForcePhase(state, phase))
    /\ UNCHANGED <<agents, processingRef, pendingToolCallRef, seqs, fallacyJobs, followUps,
                   currentConfig, openRouterPricing, deviations, stopAwaited,
                   votingPasses, verdictText>>

\* faulty variant of HandleDirectorSkipTurn: the call in flight is dropped
HandleDirectorSkipTurnCancels ==
    /\ Director
    /\ AdvanceTurnCalled(state)
    /\ seqs' = {} /\ processingRef' = FALSE
    /\ UNCHANGED <<agents, pendingToolCallRef, fallacyJobs, followUps,
                   currentConfig, openRouterPricing, deviations, votingPasses, verdictText>>

HandleDirectorSkipTurn ==
    /\ Director
    /\ AdvanceTurnCalled(state)
    /\ UNCHANGED <<agents, processingRef, pendingToolCallRef, seqs, fallacyJobs, followUps,
                   currentConfig, openRouterPricing, deviations,
                   votingPasses, verdictText>>

handleDirectorAddContext(prev) ==
    addMessage([prev EXCEPT !.contextDocuments = prev.contextDocuments + 1],
               "system", "context added", state.phase, FALSE)

HandleDirectorAddContext ==
    /\ Director /\ CanAppend(1)
    /\ Render(handleDirectorAddContext(state))
    /\ UNCHANGED <<agents, processingRef, pendingToolCallRef, seqs, fallacyJobs, followUps,
                   currentConfig, openRouterPricing, deviations, stopAwaited,
                   votingPasses, verdictText>>

\* The page is reloaded and the saved session resumed.  The persistence effect has
\* stored {state, agents} of the last render; refs, suspended calls and the price
\* cache belong to the page that was closed.
HandleResume ==
    /\ Quiet /\ Started /\ MayOverride
    /\ overrides' = overrides + 1
    /\ state' = state /\ agents' = agents
    /\ effectPending' = TRUE
    /\ processingRef' = FALSE
    /\ pendingToolCallRef' = NULL
    /\ seqs' = {}
    /\ fallacyJobs' = {}
    /\ followUps' = <<>>
    /\ openRouterPricing' \in {<<>>, openRouterPricing}
    /\ UNCHANGED <<currentConfig, deviations, stopAwaited,
                   votingPasses, verdictText>>

-----------------------------------------------------------------------------
(* Specification *)

Google == [provider |-> "GOOGLE", perplexityApiKey |-> FALSE]
OpenRouter == [provider |-> "OPENROUTER", perplexityApiKey |-> TRUE]

Init ==
    /\ state = INITIAL_STATE
    /\ agents = <<>>
    /\ processingRef = FALSE
    /\ pendingToolCallRef = NULL
    /\ seqs = {}
    /\ effectPending = FALSE
    /\ fallacyJobs = {}
    /\ followUps = <<>>
    /\ \/ currentConfig = Google /\ openRouterPricing = <<>>
       \/ currentConfig = OpenRouter
          /\ openRouterPricing = <<[prompt |-> 1000, completion |-> 2000]>>
    /\ overrides = 0
    /\ deviations = 0
    /\ stopAwaited = FALSE
    /\ votingPasses = 0
    /\ verdictText = <<>>

Next ==
    \/ runDebateStep
    \/ \E q \in seqs : VoteResult(q)
    \/ \E q \in seqs : VerdictResult(q)
    \/ \E q \in seqs : OrchestratorFails(q)
    \/ \E q \in seqs : OrchestratorDecides(q)
    \/ \E q \in seqs : GuestResult(q)
    \/ \E q \in seqs : ToolResumeResult(q)
    \/ \E q \in seqs : TurnText(q)
    \/ \E q \in seqs : TurnAsksUser(q)
    \/ \E q \in seqs : TurnSearches(q)
    \/ \E q \in seqs : SearchResult(q)
    \/ \E q \in seqs : SearchResumeResult(q)
    \/ \E m \in fallacyJobs : FallacyResult(m)
    \/ \E k \in 1..Len(followUps) : FollowUpResult(k)
    \/ HandleStart
    \/ HandleUserAnswer
    \/ HandleConsultationChoice
    \/ HandleStop
    \/ HandleFollowUp
    \/ HandleDirectorInject
    \/ HandleDirectorForcePhase
    \/ HandleDirectorSkipTurn
    \/ HandleDirectorAddContext
    \/ HandleResume

Spec == Init /\ [][Next]_vars


\* Token accounting alone: any provider, any price table parsed from the model
\* list (parseFloat accepts a negative price), any usage record and search counts.
MaxCount == 1
MaxTokens == 3
MaxCost == 1000

Prices == {-1000, 0, 1000}
PriceTables == {<<>>} \cup {<<[prompt |-> p, completion |-> c]>> : p, c \in Prices}
Usages ==
    {NoUsage} \cup
    {[present |-> TRUE, promptTokenCount |-> a, candidatesTokenCount |-> b,
      prompt_tokens |-> c, completion_tokens |-> d] :
        a \in 0..MaxCount, b \in 0..MaxCount, c \in 0..MaxCount, d \in 0..MaxCount}

InitUsage ==
    /\ state = [INITIAL_STATE EXCEPT !.phase = OPENING, !.currentTurnAgentId = "a1"]
    /\ agents = Roster(MinAgents)
    /\ processingRef = FALSE
    /\ pendingToolCallRef = NULL
    /\ seqs = {}
    /\ effectPending = FALSE
    /\ fallacyJobs = {}
    /\ followUps = <<>>
    /\ currentConfig \in {Google, OpenRouter}
    /\ openRouterPricing \in PriceTables
    /\ overrides = 0
    /\ deviations = 0
    /\ stopAwaited = FALSE
    /\ votingPasses = 0
    /\ verdictText = <<>>

\* one completed call: updateUsage(usage, searchQueries, perplexityCalls)
UpdateUsage ==
    /\ state.tokenUsage.inputTokens < MaxTokens
    /\ state.tokenUsage.outputTokens < MaxTokens
    /\ state.tokenUsage.totalCost < MaxCost /\ state.tokenUsage.totalCost > -MaxCost
    /\ \E usage \in Usages, searchQueries \in 0..MaxCount, perplexityCalls \in 0..MaxCount :
        state' = updateUsage(state, usage, searchQueries, perplexityCalls)
    /\ UNCHANGED <<agents, processingRef, pendingToolCallRef, seqs, effectPending,
                   fallacyJobs, followUps, currentConfig, openRouterPricing, overrides,
                   deviations, stopAwaited,
                   votingPasses, verdictText>>

SpecUsage == InitUsage /\ [][UpdateUsage]_vars

\* Fallacy attachment alone: any transcript of distinct message ids, and analyses
\* outstanding for ids that are in the transcript or not.
MaxLen == 3
MaxId == 4

MsgIds == 1..MaxId
Messages ==
    {[Message(id, "a1", "text", OPENING, FALSE) EXCEPT !.fallacy = f] :
        id \in MsgIds, f \in BOOLEAN}
Transcripts ==
    UNION {{t \in [1..n -> Messages] : \A i, j \in 1..n : i # j => t[i].id # t[j].id} :
           n \in 0..MaxLen}

InitFallacy ==
    /\ \E t \in Transcripts :
        state = [INITIAL_STATE EXCEPT !.phase = OPENING, !.currentTurnAgentId = "a1",
                                      !.transcript = t]
    /\ agents = Roster(MinAgents)
    /\ processingRef = FALSE
    /\ pendingToolCallRef = NULL
    /\ seqs = {}
    /\ effectPending = FALSE
    /\ fallacyJobs \in (SUBSET MsgIds) \ {{}}
    /\ followUps = <<>>
    /\ currentConfig = Google /\ openRouterPricing = <<>>
    /\ overrides = 0
    /\ deviations = 0
    /\ stopAwaited = FALSE
    /\ votingPasses = 0
    /\ verdictText = <<>>

\* the analysis of message m found a fallacy: updateMessageFallacy(m, fallacy)
AttachFallacy(m) ==
    /\ m \in fallacyJobs
    /\ fallacyJobs' = fallacyJobs \ {m}
    /\ Render(updateMessageFallacy(state, m))
    /\ UNCHANGED <<agents, processingRef, pendingToolCallRef, seqs, followUps,
                   currentConfig, openRouterPricing, overrides, deviations, stopAwaited,
                   votingPasses, verdictText>>

NextFallacy == \E m \in fallacyJobs : AttachFallacy(m)

SpecFallacy == InitFallacy /\ [][NextFallacy]_vars

\* generateContentWithRetry alone (Google provider): one call of generateGeneric's
\* `await generateContentWithRetry(params)`, with the default arguments. seqs holds
\* the call's innermost frame, suspended at its await or settled; its error is <<>>
\* or <<e>> for the last rejection e.
DefaultRetries == 3
DefaultBackoff == 2000

\* the fields of a rejection the catch clause looks at; 0 is an absent status or code,
\* <<>> an absent message, and a message <<s>> includes the probed substrings in s
Probed == {"429", "Quota", "quota"}
Errors ==
    [status : {0, 429, 500, 503}, code : {0, 429},
     message : {<<>>} \cup {<<m>> : m \in SUBSET Probed}]

KeyNotFound == [status |-> 0, code |-> 0, message |-> <<{}>>]

\* error.message?.includes(sub)
includes(message, sub) == message # <<>> /\ sub \in message[1]

IsRateLimit(error) ==
    \/ error.status = 429
    \/ error.code = 429
    \/ includes(error.message, "429")
    \/ includes(error.message, "Quota")
    \/ includes(error.message, "quota")
    \/ error.status = 503

InitRetry ==
    /\ state = [INITIAL_STATE EXCEPT !.phase = OPENING, !.currentTurnAgentId = "a1",
                                     !.isThinking = TRUE, !.thinkingAgentId = "a1"]
    /\ agents = Roster(MinAgents)
    /\ processingRef = TRUE
    /\ pendingToolCallRef = NULL
    /\ \E key \in BOOLEAN :
        seqs = {[pc |-> "getClient", retries |-> DefaultRetries,
                 backoff |-> DefaultBackoff, apiKey |-> key,
                 attempts |-> 0, waited |-> <<>>, error |-> <<>>]}
    /\ effectPending = FALSE
    /\ fallacyJobs = {}
    /\ followUps = <<>>
    /\ currentConfig = Google /\ openRouterPricing = <<>>
    /\ overrides = 0
    /\ deviations = 0
    /\ stopAwaited = FALSE
    /\ votingPasses = 0
    /\ verdictText = <<>>

RetryFrame(c, c2) ==
    /\ seqs' = (seqs \ {c}) \cup {c2}
    /\ UNCHANGED <<state, agents, processingRef, pendingToolCallRef, effectPending,
                   fallacyJobs, followUps, currentConfig, openRouterPricing, overrides,
                   stopAwaited,
                   votingPasses, verdictText>>

\* `const ai = getClient()` and, with a client, the start of generateContent
GetClient(c) ==
    /\ c.pc = "getClient"
    /\ RetryFrame(c, IF c.apiKey
                     THEN [c EXCEPT !.pc = "generateContent", !.attempts = c.attempts + 1]
                     ELSE [c EXCEPT !.pc = "thrown", !.error = <<KeyNotFound>>])
    /\ UNCHANGED deviations

\* `return await ai.models.generateContent(params)` resolves
ContentReturned(c) ==
    /\ c.pc = "generateContent"
    /\ RetryFrame(c, [c EXCEPT !.pc = "returned"])
    /\ UNCHANGED deviations

\* faulty variant of ContentFailed: every rejection is retried while retries are left
ContentFailedRetriesAnyError(c) ==
    /\ c.pc = "generateContent"
    /\ \E error \in Errors :
        RetryFrame(c, [c EXCEPT !.error = <<error>>,
                                !.pc = IF c.retries > 0 THEN "delay" ELSE "thrown"])
    /\ deviations' = deviations + 1

\* faulty variant of ContentFailed: the test is `retries >= 0`
ContentFailedRetriesOnceMore(c) ==
    /\ c.pc = "generateContent"
    /\ \E error \in Errors :
        RetryFrame(c, [c EXCEPT !.error = <<error>>,
                                !.pc = IF c.retries >= 0 /\ IsRateLimit(error)
                                       THEN "delay" ELSE "thrown"])
    /\ deviations' = deviations + 1

\* generateContent rejects: the catch clause either waits or rethrows
ContentFailed(c) ==
    /\ c.pc = "generateContent"
    /\ \E error \in Errors :
        RetryFrame(c, [c EXCEPT !.error = <<error>>,
                                !.pc = IF c.retries > 0 /\ IsRateLimit(error)
                                       THEN "delay" ELSE "thrown"])
    /\ deviations' = deviations + 1

\* `await delay(backoff)` elapses:
\* `return generateContentWithRetry(params, retries - 1, backoff * 2)`
DelayElapsed(c) ==
    /\ c.pc = "delay"
    /\ RetryFrame(c, [c EXCEPT !.pc = "getClient", !.retries = c.retries - 1,
                               !.backoff = c.backoff * 2,
                               !.waited = Append(c.waited, c.backoff)])
    /\ UNCHANGED deviations

NextRetry ==
    \/ \E c \in seqs : GetClient(c)
    \/ \E c \in seqs : ContentReturned(c)
    \/ \E c \in seqs : ContentFailed(c)
    \/ \E c \in seqs : DelayElapsed(c)

SpecRetry == InitRetry /\ [][NextRetry]_vars

\* generateGeneric's provider call on either path: callOpenRouter for the OpenRouter
\* provider (one fetch, no catch), generateContentWithRetry for Google.  The frame is
\* that of SpecRetry; apiKey is the key of the provider configured.
OpenRouterKeyNotFound == [status |-> 0, code |-> 0, message |-> <<{}>>]

\* what callOpenRouter throws after its fetch: a rejected fetch, `OpenRouter Error:`
\* with the body of a response that is not ok, or a body that does not parse; an
\* Error has a message and neither status nor code
FetchErrors == {e \in Errors : e.status = 0 /\ e.code = 0 /\ e.message # <<>>}

InitGeneric ==
    /\ state = [INITIAL_STATE EXCEPT !.phase = OPENING, !.currentTurnAgentId = "a1",
                                     !.isThinking = TRUE, !.thinkingAgentId = "a1"]
    /\ agents = Roster(MinAgents)
    /\ processingRef = TRUE
    /\ pendingToolCallRef = NULL
    /\ \E key \in BOOLEAN :
        seqs = {[pc |-> "generateGeneric", retries |-> DefaultRetries,
                 backoff |-> DefaultBackoff, apiKey |-> key,
                 attempts |-> 0, waited |-> <<>>, error |-> <<>>]}
    /\ effectPending = FALSE
    /\ fallacyJobs = {}
    /\ followUps = <<>>
    /\ \/ currentConfig = Google /\ openRouterPricing = <<>>
       \/ currentConfig = OpenRouter
          /\ openRouterPricing = <<[prompt |-> 1000, completion |-> 2000]>>
    /\ overrides = 0
    /\ deviations = 0
    /\ stopAwaited = FALSE
    /\ votingPasses = 0
    /\ verdictText = <<>>

\* generateGeneric picks the path; callOpenRouter runs up to its `await fetch(...)`
GenerateGeneric(c) ==
    /\ c.pc = "generateGeneric"
    /\ RetryFrame(c, IF currentConfig.provider = "OPENROUTER"
                     THEN IF c.apiKey
                          THEN [c EXCEPT !.pc = "fetch", !.attempts = c.attempts + 1]
                          ELSE [c EXCEPT !.pc = "thrown",
                                         !.error = <<OpenRouterKeyNotFound>>]
                     ELSE [c EXCEPT !.pc = "getClient"])
    /\ UNCHANGED deviations

\* the response is ok and its body parses: callOpenRouter returns
FetchReturned(c) ==
    /\ c.pc = "fetch"
    /\ RetryFrame(c, [c EXCEPT !.pc = "returned"])
    /\ UNCHANGED deviations

\* the fetch rejects, the response is not ok, or its body does not parse: thrown to
\* generateGeneric's caller
FetchFailed(c) ==
    /\ c.pc = "fetch"
    /\ \E error \in FetchErrors :
        RetryFrame(c, [c EXCEPT !.error = <<error>>, !.pc = "thrown"])
    /\ deviations' = deviations + 1

NextGeneric ==
    \/ \E c \in seqs : GenerateGeneric(c)
    \/ \E c \in seqs : FetchReturned(c)
    \/ \E c \in seqs : FetchFailed(c)
    \/ \E c \in seqs : GetClient(c)
    \/ \E c \in seqs : ContentReturned(c)
    \/ \E c \in seqs : ContentFailed(c)
    \/ \E c \in seqs : DelayElapsed(c)

SpecGeneric == InitGeneric /\ [][NextGeneric]_vars

\* The orchestrator branch alone, entered in any round: an AUTO debate of MinAgents
\* agents whose SYNTHESIS pass has just ended.  The transcript holds that pass only;
\* the branch hands the transcript to the provider and otherwise only appends to it.
MaxRound == 7

SynthesisPass ==
    [i \in 1..MinAgents |-> Message(i, Roster(MinAgents)[i], "text", SYNTHESIS, FALSE)]

InitOrchestrator ==
    /\ \E currentRound \in 1..MaxRound :
        state = [handleStart(MinAgents, "AUTO", INITIAL_STATE.maxRounds, FALSE) EXCEPT
                    !.phase = SYNTHESIS, !.currentTurnAgentId = ORCHESTRATOR,
                    !.currentRound = currentRound, !.transcript = SynthesisPass]
    /\ agents = Roster(MinAgents)
    /\ processingRef = FALSE
    /\ pendingToolCallRef = NULL
    /\ seqs = {}
    /\ effectPending = TRUE
    /\ fallacyJobs = {}
    /\ followUps = <<>>
    /\ \/ currentConfig = Google /\ openRouterPricing = <<>>
       \/ currentConfig = OpenRouter
          /\ openRouterPricing = <<[prompt |-> 1000, completion |-> 2000]>>
    /\ overrides = 0
    /\ deviations = 0
    /\ stopAwaited = FALSE
    /\ votingPasses = 0
    /\ verdictText = <<>>

\* the branch, and the start of what it hands over to
NextOrchestrator ==
    \/ StepReturns
    \/ StepOrchestrator
    \/ \E q \in seqs : OrchestratorDecides(q)
    \/ \E q \in seqs : OrchestratorFails(q)
    \/ \E q \in seqs : GuestResult(q)
    \/ StepStartTurn
    \/ StepVoting

SpecOrchestrator == InitOrchestrator /\ [][NextOrchestrator]_vars


-----------------------------------------------------------------------------
(* Claims *)

\* C1: once the debate is started, currentTurnAgentId is null only if the phase is
\* VOTING or VERDICT or a user question is pending.
C1_NullTurnOnlyVotingVerdictOrPending ==
    (Started /\ state.currentTurnAgentId = NULL)
        => (state.phase \in {VOTING, VERDICT} \/ state.pendingUserQuestion # NULL)


\* C2: after a debate is started, currentRound never decreases.
C2_RoundNeverDecreases ==
    [][Started => state'.currentRound >= state.currentRound]_vars

C2_RoundIncreased == Started /\ state.currentRound > 1

\* C3: in FIXED mode currentRound never exceeds maxRounds, and when no intervention
\* occurred the phase reaches VOTING only in round maxRounds.
C3_FixedRoundsBounded ==
    (Started /\ state.mode = "FIXED") =>
        /\ state.currentRound <= state.maxRounds
        /\ (overrides = 0 /\ state.phase \in {VOTING, VERDICT})
               => state.currentRound = state.maxRounds

C3_FixedReachedVoting ==
    /\ state.mode = "FIXED" /\ state.phase = VOTING /\ overrides = 0
    /\ state.currentRound = state.maxRounds

\* what runDebateStep would start if it ran on s
StepWouldStart(s) ==
    /\ ~Paused(s)
    /\ \/ VotingDue(s)
       \/ OrchestratorDue(s)
       \/ ~NoTurn(s) /\ (~s.isThinking \/ pendingToolCallRef # NULL)

Stuck ==
    /\ Started /\ state.phase # VERDICT
    /\ seqs = {} /\ followUps = <<>> /\ ~effectPending /\ ~processingRef
    /\ ~Paused(state)
    /\ ~StepWouldStart(state)

\* C4: without any intervention of the user or the director, no failure of a generation
\* call leaves the engine at rest before VERDICT with nothing pending and nothing to run.
C4_NoFailureLeavesEngineStuck == overrides = 0 => ~Stuck

\* C5: at most one turn-producing sequence (agent turn, tool resume, orchestrator
\* decision, voting pass) is in flight at any time, and while one is in flight
\* processingRef is held.
C5_OneSequenceInFlight ==
    /\ Cardinality(seqs) <= 1
    /\ seqs # {} => processingRef

\* the effect is about to run on a state in which it would start a turn, while a
\* sequence is in flight
C5_SecondStartRefused ==
    /\ effectPending /\ processingRef /\ seqs # {}
    /\ ~Paused(state) /\ ~NoTurn(state) /\ ~state.isThinking
    /\ ~VotingDue(state) /\ ~OrchestratorDue(state)

\* the votes are of agents among the first `attempted` of the roster, in roster order
VotesInOrder(votes, attempted) ==
    /\ Len(votes) <= attempted
    /\ \A j \in 1..Len(votes) : findIndex(votes[j].voterId) \in 1..attempted
    /\ \A j, k \in 1..Len(votes) :
        j < k => findIndex(votes[j].voterId) < findIndex(votes[k].voterId)

\* C6: the votes collected by a voting pass, and the votes of the final verdict, hold at
\* most one vote per roster agent, of distinct voters in list order, each of an agent
\* already attempted; the verdict call is made exactly when every agent was attempted.
C6_OneVotePerAgentInOrder ==
    /\ \A q \in seqs : q.pc \in {"vote", "verdict"} =>
        /\ q.i \in 1..(Len(agents) + 1)
        /\ VotesInOrder(q.votes, q.i - 1)
        /\ q.pc = "verdict" <=> q.i = Len(agents) + 1
    /\ state.finalVerdict # <<>> =>
        VotesInOrder(state.finalVerdict[1].votes, Len(agents))

\* a verdict reached with one agent's vote missing after its call failed
C6_VerdictWithVoteOmitted ==
    /\ state.finalVerdict # <<>>
    /\ Len(state.finalVerdict[1].votes) = Len(agents) - 1

CollectedVotes ==
    UNION {Range(q.votes) : q \in seqs}
    \cup (IF state.finalVerdict = <<>> THEN {} ELSE Range(state.finalVerdict[1].votes))

\* C7: every collected vote has a voterId and a targetAgentId that are ids of roster
\* agents.
C7_VotesNameRosterAgents ==
    \A v \in CollectedVotes : v.voterId \in RosterIds /\ v.targetAgentId \in RosterIds

\* C8: no update of the token usage decreases inputTokens, outputTokens or totalCost.
C8_UsageNeverDecreases ==
    [][/\ state'.tokenUsage.inputTokens >= state.tokenUsage.inputTokens
       /\ state'.tokenUsage.outputTokens >= state.tokenUsage.outputTokens
       /\ state'.tokenUsage.totalCost >= state.tokenUsage.totalCost]_vars

\* what one attachment for message id m does to the transcript
Attached(m) ==
    LET old == state.transcript
        new == state'.transcript
    IN /\ Len(new) = Len(old)
       /\ \A i \in 1..Len(old) :
            new[i] = IF old[i].id = m THEN [old[i] EXCEPT !.fallacy = TRUE] ELSE old[i]
       /\ (\A i \in 1..Len(old) : old[i].id # m) => state' = state
       /\ \A f \in DOMAIN state \ {"transcript"} : state'[f] = state[f]

C10_StopHonouredAtNextAdvanceTurn ==
    [][/\ (state'.userRequestedStop /\ ~state.userRequestedStop) =>
            /\ state'.phase = state.phase
            /\ state'.currentTurnAgentId = state.currentTurnAgentId
            /\ seqs' = seqs
       /\ (stopAwaited /\ ~stopAwaited') =>
            (state'.phase = VOTING /\ state'.currentTurnAgentId = NULL)]_vars

\* a step that executes advanceTurn: a turn's result, or the director's skip-turn
AdvanceTurnStep ==
    /\ \/ HandleDirectorSkipTurn
       \/ \E q \in seqs : TurnText(q) \/ ToolResumeResult(q) \/ SearchResumeResult(q)
    /\ state' # state

AtAutoBoundary(s) ==
    /\ s.mode = "AUTO" /\ s.phase = SYNTHESIS /\ ~s.userRequestedStop
    /\ Len(agents) > 0 /\ s.currentTurnAgentId = agents[Len(agents)]

\* C11: in AUTO mode, advanceTurn executed on the last agent's SYNTHESIS turn with no
\* stop requested hands the turn to the orchestrator sentinel and leaves phase
\* SYNTHESIS and currentRound as they are.
C11_AutoHandsOverToOrchestrator ==
    [][(AtAutoBoundary(state) /\ AdvanceTurnStep) =>
            /\ state'.currentTurnAgentId = ORCHESTRATOR
            /\ state'.phase = SYNTHESIS
            /\ state'.currentRound = state.currentRound]_vars

\* the orchestrator's turn has just been set at the end of an undisturbed SYNTHESIS pass
C11_OrchestratorTurnSet ==
    /\ state.mode = "AUTO" /\ state.phase = SYNTHESIS /\ overrides = 0
    /\ state.currentTurnAgentId = ORCHESTRATOR /\ ~state.isThinking
    /\ state.currentRound = 1 /\ Len(state.transcript) = 3 * Len(agents)

\* the agent turns taken so far: author and phase of every agent message
Turns == [i \in 1..Len(state.transcript) |->
            <<state.transcript[i].agentId, state.transcript[i].phase>>]
IsPrefix(s, t) == Len(s) <= Len(t) /\ \A i \in 1..Len(s) : s[i] = t[i]

\* a FIXED debate of [A, B] with maxRounds = 1 that nothing has disturbed
PlainFixedOneRound ==
    /\ Started /\ state.mode = "FIXED" /\ state.maxRounds = 1 /\ Len(agents) = 2
    /\ overrides = 0 /\ deviations = 0

PassOf(phase) == <<<<agents[1], phase>>, <<agents[2], phase>>>>
\* the phase of the k-th turn of such a debate
PhaseOfTurn(k) == IF k <= 2 THEN OPENING ELSE IF k <= 4 THEN REBUTTAL ELSE SYNTHESIS

\* C12 as stated: the turns are OPENING(A, B) then REBUTTAL(A, B), the round stays 1
\* and the phase is then VOTING.
C12_VotingAfterRebuttal ==
    PlainFixedOneRound =>
        /\ IsPrefix(Turns, PassOf(OPENING) \o PassOf(REBUTTAL))
        /\ state.currentRound = 1
        /\ (Len(Turns) = 4) => (state.phase \in {VOTING, VERDICT})

\* C12 amended: the turns are OPENING(A, B), REBUTTAL(A, B), SYNTHESIS(A, B), the
\* round stays 1, and the phase is VOTING (then VERDICT) exactly when all six turns
\* were taken: there is no loop back to REBUTTAL.
C12_VotingAfterSynthesis ==
    PlainFixedOneRound =>
        /\ IsPrefix(Turns, PassOf(OPENING) \o PassOf(REBUTTAL) \o PassOf(SYNTHESIS))
        /\ state.currentRound = 1
        /\ (state.phase \in {VOTING, VERDICT}) <=> (Len(Turns) = 6)
        /\ (Len(Turns) < 6) =>
            /\ state.phase = PhaseOfTurn(Len(Turns) + 1)
            /\ state.currentTurnAgentId = agents[1 + (Len(Turns) % 2)]

C12_VotingReached ==
    PlainFixedOneRound /\ state.phase = VOTING /\ Len(Turns) = 6 /\ ~state.isThinking

\* the step appends exactly one message and keeps the earlier ones
AppendsOne ==
    /\ Len(state'.transcript) = Len(state.transcript) + 1
    /\ SubSeq(state'.transcript, 1, Len(state.transcript)) = state.transcript

LastMessage(s) == s.transcript[Len(s.transcript)]

RestartsRebuttal ==
    /\ state'.currentRound = state.currentRound + 1
    /\ state'.phase = REBUTTAL
    /\ state'.currentTurnAgentId = agents[1]
    /\ ~state'.isThinking

\* the orchestrator's decision is applied in this step and the invocation ends with
\* guidance of the chairperson and no consultation prompt: it neither concluded, nor
\* consulted, nor summoned
OrchestratorProceeds(q) ==
    /\ q \in seqs /\ q.pc = "orchestrator" /\ seqs' = seqs \ {q}
    /\ overrides' = overrides /\ deviations' = deviations
    /\ Len(state'.transcript) > Len(state.transcript)
    /\ LastMessage(state').agentId = CHAIRPERSON
    /\ ~state'.showConsultationPrompt

\* C13: when the orchestrator neither concludes, nor consults the user, nor summons a
\* guest, exactly one chairperson message is appended, currentRound increases by
\* exactly 1, the phase becomes REBUTTAL and the turn is reset to the first agent.
C13_OrchestratorProceedsToRebuttal ==
    [][\A q \in seqs : OrchestratorProceeds(q) => (AppendsOne /\ RestartsRebuttal)]_vars

\* an undisturbed AUTO debate whose orchestrator has just let round 2 begin
C13_RoundTwoBegun ==
    /\ state.mode = "AUTO" /\ overrides = 0 /\ deviations = 0
    /\ Len(state.transcript) = 3 * Len(agents) + 1
    /\ LastMessage(state).agentId = CHAIRPERSON
    /\ state.currentRound = 2 /\ state.phase = REBUTTAL
    /\ state.currentTurnAgentId = agents[1] /\ ~state.isThinking

GuestMessages(s) == {i \in 1..Len(s.transcript) : s.transcript[i].isGuest}

\* the decision applied in this step summons a guest: the invocation goes on to the
\* guest's turn
OrchestratorSummoned(q) ==
    /\ q \in seqs /\ q.pc = "orchestrator"
    /\ seqs' = (seqs \ {q}) \cup {[q EXCEPT !.pc = "guest"]}

\* the guest's turn ends in this step
GuestTurnEnds(q) ==
    /\ q \in seqs /\ q.pc = "guest" /\ seqs' = seqs \ {q}
    /\ overrides' = overrides

VoteAttempted(q, q2) ==
    /\ q2.i = q.i + 1
    /\ q2.pc = IF q2.i > Len(agents) THEN "verdict" ELSE "vote"
    /\ IF deviations' > deviations
       THEN q2.votes = q.votes /\ state' = state
       ELSE /\ Len(q2.votes) = Len(q.votes) + 1
            /\ SubSeq(q2.votes, 1, Len(q.votes)) = q.votes
            /\ q2.votes[Len(q2.votes)].voterId = agents[q.i]

\* C15: a failed vote call omits only that agent's vote and changes nothing else: the
\* pass goes on to the next agent in order, the verdict call is made once every agent
\* was attempted, and when it returns the phase is VERDICT with exactly the votes
\* collected.
C15_FailedVoteOnlyOmitted ==
    [][\A q \in seqs : (overrides' = overrides /\ q \notin seqs') =>
        /\ q.pc = "vote" => \E q2 \in seqs' : seqs' = {q2} /\ VoteAttempted(q, q2)
        /\ (q.pc = "verdict" /\ deviations' = deviations) =>
            /\ seqs' = {}
            /\ state'.phase = VERDICT /\ ~state'.isThinking
            /\ state'.finalVerdict # <<>>
            /\ state'.finalVerdict[1].votes = q.votes]_vars

\* a verdict of two agents in which the first agent's vote failed and the second
\* agent's vote was still collected
C15_VerdictAfterFirstVoteFailed ==
    /\ state.phase = VERDICT /\ state.finalVerdict # <<>> /\ Len(agents) = 2
    /\ Len(state.finalVerdict[1].votes) = 1
    /\ state.finalVerdict[1].votes[1].voterId = agents[2]

\* C16: a call that keeps failing with a rate-limit or overload error is attempted at
\* most 4 times, having waited 2000, 4000 and 8000 ms before the 2nd, 3rd and 4th
\* attempts; an attempt that succeeds returns with no further wait, and such an error
\* reaches the caller only as the failure of the 4th attempt.
C16_FourAttemptsWithDoublingBackoff ==
    \A c \in seqs :
        /\ c.attempts <= 4
        /\ Len(c.waited) <= 3
        /\ c.waited = SubSeq(<<2000, 4000, 8000>>, 1, Len(c.waited))
        /\ c.pc \in {"generateContent", "returned", "delay"} => Len(c.waited) = c.attempts - 1
        /\ c.pc = "delay" => c.attempts <= 3 /\ IsRateLimit(c.error[1]) /\ deviations = c.attempts
        /\ (c.pc = "thrown" /\ c.apiKey /\ IsRateLimit(c.error[1])) =>
            (c.attempts = 4 /\ deviations = 4 /\ c.waited = <<2000, 4000, 8000>>)

\* the 4th attempt failed with a rate-limit or overload error and the error was thrown
C16_FourthFailureThrown ==
    \E c \in seqs : c.pc = "thrown" /\ c.attempts = 4 /\ IsRateLimit(c.error[1])

\* the generation awaited by q fails in this step: the first generation of a turn, or
\* a tool-resume generation (after the user's answer, or after the search result)
FirstGenerationFails(q) == TurnText(q) /\ deviations' > deviations
ResumeGenerationFails(q) ==
    (ToolResumeResult(q) \/ SearchResumeResult(q)) /\ deviations' > deviations

\* the step completes q's turn with the filler: one message by q's agent is appended
\* and advanceTurn has run on the result
CompletesWithFiller(q) ==
    /\ AppendsOne
    /\ LastMessage(state').agentId = q.agent
    /\ LastMessage(state').content = "filler"
    /\ \E s \in {state'} :
        state' = advanceTurn([s EXCEPT !.phase = state.phase,
                                       !.currentRound = state.currentRound,
                                       !.currentTurnAgentId = state.currentTurnAgentId,
                                       !.isThinking = state.isThinking,
                                       !.thinkingAgentId = state.thinkingAgentId])

\* C17: a failed generation of an agent's turn, the first one or a tool-resume one,
\* completes the turn in that step: the agent's filler message is appended and the
\* turn rotates.
C17_FailedTurnCompletesWithFiller ==
    [][\A q \in seqs :
        (FirstGenerationFails(q) \/ ResumeGenerationFails(q)) => CompletesWithFiller(q)]_vars

\* the effect starts a voting pass, an orchestrator decision, a tool resume or an
\* agent turn in this step
SequenceStarts ==
    \/ StepVoting \/ StepOrchestrator \/ StepResumeFromTool \/ StepStartTurn
    \/ processingRef' /\ ~processingRef
    \/ \E q \in seqs' \ seqs : q.state = state /\ q.pc \in {"turn", "resume", "orchestrator"}

\* C18: a turn that returns the askUser tool call records the pending question and sets
\* phase USER_INPUT; and from a state with a pending question or with the consultation
\* prompt shown, nothing is in flight and no step starts a turn, a tool resume, an
\* orchestrator decision or a voting pass.
C18_PausedWhileHumanIsAsked ==
    [][/\ \A q \in seqs : TurnAsksUser(q) =>
            /\ state'.pendingUserQuestion # NULL
            /\ state'.phase = USER_INPUT
            /\ pendingToolCallRef' = "askUser"
            /\ seqs' = {} /\ ~processingRef'
       /\ (state.pendingUserQuestion # NULL \/ state.showConsultationPrompt) =>
            (seqs = {} /\ ~SequenceStarts)]_vars

\* the question of an agent is pending and the effect is about to run on that state
C18_EffectRunsWhileQuestionPending ==
    /\ state.pendingUserQuestion # NULL /\ state.phase = USER_INPUT
    /\ pendingToolCallRef = "askUser"
    /\ effectPending /\ ~processingRef /\ seqs = {}
    /\ ~state.isThinking /\ findIndex(state.currentTurnAgentId) > 0

\* C19: handleUserAnswer called while no question is pending changes nothing: the
\* debate state, the refs and the invocations in flight stay as they are.
C19_AnswerWithoutQuestionIsNoOp ==
    [][(state.pendingUserQuestion = NULL /\ HandleUserAnswer) =>
        /\ state' = state
        /\ UNCHANGED <<agents, processingRef, pendingToolCallRef, seqs, effectPending>>]_vars

\* a running debate with no question pending in which an agent is generating, so that
\* the missing question is all that keeps handleUserAnswer from acting
C19_NoQuestionWhileAgentThinks ==
    /\ Started /\ Quiet
    /\ state.pendingUserQuestion = NULL
    /\ state.thinkingAgentId # NULL /\ state.isThinking
    /\ Len(state.transcript) > 0 /\ Len(state.transcript) < MaxMsgs

\* C20: from a state whose phase is VERDICT every step leaves the phase VERDICT and
\* starts no agent turn, orchestrator decision or voting pass.
C20_VerdictIsTerminal ==
    [][state.phase = VERDICT => (state'.phase = VERDICT /\ ~SequenceStarts)]_vars

\* C21 as stated: finalVerdict, once set, never changes, and no debate has a second
\* voting pass.
C21_OneVerdictOneVotingPass ==
    [][/\ state.finalVerdict # <<>> => state'.finalVerdict = state.finalVerdict
       /\ votingPasses' <= 1]_vars

\* C21: finalVerdict, once set, never changes (winner, summary, takeaways, votes), and
\* from then on no voting pass starts; only a pass that ended without a verdict can be
\* followed by another one.
C21_VerdictSetOnce ==
    [][state.finalVerdict # <<>> =>
            /\ state'.finalVerdict = state.finalVerdict
            /\ votingPasses' = votingPasses /\ ~StepVoting]_vars

\* the verdict is set, the director has forced VOTING again and the effect is about to
\* run: only the verdict keeps a voting pass from starting
C21_VotingForcedAfterVerdict ==
    /\ state.finalVerdict # <<>> /\ state.phase = VOTING /\ ~state.isThinking
    /\ effectPending /\ ~processingRef /\ ~Paused(state)
    /\ votingPasses = 1

\* message m2 is message m with at most its fallacy finding changed
SameButFallacy(m, m2) == m2 = [m EXCEPT !.fallacy = m2.fallacy]

\* C22: every step keeps the messages of the transcript in place and in order, with
\* unchanged id, author, content and phase; new messages come after them, and on an
\* existing message only the fallacy finding changes.
C22_TranscriptAppendOnly ==
    [][/\ Len(state'.transcript) >= Len(state.transcript)
       /\ \A i \in 1..Len(state.transcript) :
            SameButFallacy(state.transcript[i], state'.transcript[i])]_vars

\* the first of at least three messages carries a finding and the second does not:
\* an existing message was changed in place
C22_FindingAttachedBelowLaterMessages ==
    /\ Len(state.transcript) >= 3
    /\ state.transcript[1].fallacy
    /\ ~state.transcript[2].fallacy
    /\ fallacyJobs = {}

\* after this step the effect, run on the new state and refs, starts a sequence
WillStart ==
    /\ ~processingRef' /\ ~Paused(state')
    /\ \/ VotingDue(state')
       \/ OrchestratorDue(state')
       \/ ~NoTurn(state') /\ (~state'.isThinking \/ pendingToolCallRef' # NULL)

\* the question of an agent is pending together with its tool call, so that the
\* user's answer makes the effect resume the agent's turn
AnswerWillResume(s, ref) ==
    /\ s.pendingUserQuestion # NULL
    /\ s.thinkingAgentId \notin {NULL, CHAIRPERSON}
    /\ ref # NULL

\* C23: resuming the saved session restores phase, turn and round, and the debate goes
\* on from there: whatever was in flight or due is started again, and the answer to a
\* pending agent question still resumes that agent's turn.
C23_ResumeContinuesDebate ==
    [][HandleResume =>
        /\ state'.phase = state.phase
        /\ state'.currentTurnAgentId = state.currentTurnAgentId
        /\ state'.currentRound = state.currentRound
        /\ agents' = agents
        /\ (seqs # {} \/ StepWouldStart(state)) => WillStart
        /\ AnswerWillResume(state, pendingToolCallRef) =>
                AnswerWillResume(state', pendingToolCallRef')]_vars

\* C24: the director's force-phase sets phase to the forced phase p and the turn to the
\* first agent, or to null when p is VOTING, and leaves round, transcript, pending
\* question, stop request, final verdict, context documents and token usage unchanged.
C24_ForcePhaseFrame ==
    [][HandleDirectorForcePhase =>
        /\ state'.phase \in {REBUTTAL, SYNTHESIS, VOTING}
        /\ state'.currentTurnAgentId =
                IF state'.phase = VOTING THEN NULL ELSE agents[1]
        /\ state'.currentRound = state.currentRound
        /\ state'.transcript = state.transcript
        /\ state'.pendingUserQuestion = state.pendingUserQuestion
        /\ state'.userRequestedStop = state.userRequestedStop
        /\ state'.finalVerdict = state.finalVerdict
        /\ state'.contextDocuments = state.contextDocuments
        /\ state'.tokenUsage = state.tokenUsage]_vars

\* C25: a skip-turn runs advanceTurn at once and leaves the invocation in flight as it
\* is; and when the generation of a turn returns text, whatever the turn has become
\* meanwhile, one message by the agent that generated it is appended, in the phase the
\* turn was started in, and its fallacy analysis is launched for that message.
C25_SkipTurnKeepsCallInFlight ==
    [][/\ HandleDirectorSkipTurn =>
            /\ state' = advanceTurn(state)
            /\ UNCHANGED <<seqs, processingRef, pendingToolCallRef, fallacyJobs>>
       /\ \A q \in seqs : TurnText(q) =>
            /\ AppendsOne
            /\ LastMessage(state').agentId = q.agent
            /\ LastMessage(state').phase = q.state.phase
            /\ fallacyJobs' \in {fallacyJobs, fallacyJobs \cup {LastMessage(state').id}}]_vars

\* a1's turn was skipped while its generation was in flight; the result then arrived
\* and was appended as a1's message, with its analysis outstanding, and the second
\* rotation brought the turn back to a1
C25_SkippedTurnResultAppended ==
    /\ Len(agents) = 2 /\ overrides = 1 /\ deviations = 0
    /\ Len(state.transcript) = 1
    /\ state.transcript[1].agentId = agents[1]
    /\ state.transcript[1].phase = OPENING
    /\ state.phase = REBUTTAL /\ state.currentTurnAgentId = agents[1]
    /\ 1 \in fallacyJobs

\* the effect is about to run on a state in which an agent's turn is due
TurnDue ==
    /\ effectPending /\ ~processingRef /\ ~Paused(state)
    /\ ~VotingDue(state) /\ ~OrchestratorDue(state) /\ ~NoTurn(state)
    /\ ~state.isThinking

\* C26: outstanding fallacy analyses hold nothing up and are held up by nothing: a due
\* turn starts and a returned generation is applied, with advanceTurn, while analyses
\* are outstanding; these steps leave the outstanding analyses outstanding; and an
\* outstanding analysis can complete at any quiet moment, changing neither the turn
\* nor the invocation in flight.
C26_AnalysesDetachedFromRotation ==
    /\ [](fallacyJobs # {} =>
            /\ TurnDue => ENABLED StepStartTurn
            /\ \A q \in seqs : (Quiet /\ q.pc = "turn" /\ CanAppend(1)) => ENABLED TurnText(q)
            /\ \A m \in fallacyJobs : Quiet => ENABLED FallacyResult(m))
    /\ [][/\ (StepStartTurn \/ AdvanceTurnStep) => fallacyJobs \subseteq fallacyJobs'
          /\ \A m \in fallacyJobs : FallacyResult(m) =>
                /\ UNCHANGED <<seqs, processingRef, pendingToolCallRef>>
                /\ state'.phase = state.phase
                /\ state'.currentTurnAgentId = state.currentTurnAgentId
                /\ state'.currentRound = state.currentRound
                /\ state'.isThinking = state.isThinking]_vars

\* the analysis of the first message is still outstanding after two later turns, and
\* the analysis of the second message has completed before it
C26_LaterAnalysisCompletedFirst ==
    /\ Len(state.transcript) >= 3
    /\ 1 \in fallacyJobs /\ ~state.transcript[1].fallacy
    /\ state.transcript[2].fallacy
    /\ state.transcript[3].agentId \in RosterIds

\* the steps that resolve a consultation prompt: the prompt is declined (by the user or
\* by its timer), it is accepted, and the user's feedback is submitted
PromptAccepted == HandleConsultationChoice /\ state'.pendingUserQuestion # NULL
PromptDeclined == HandleConsultationChoice /\ state'.pendingUserQuestion = NULL
FeedbackAwaited(s) == s.pendingUserQuestion # NULL /\ s.thinkingAgentId = CHAIRPERSON
FeedbackSubmitted == HandleUserAnswer /\ FeedbackAwaited(state)

NextRoundBegins ==
    /\ ~state'.showConsultationPrompt /\ state'.pendingUserQuestion = NULL
    /\ state'.phase = REBUTTAL
    /\ state'.currentTurnAgentId = agents[1]
    /\ state'.currentRound = state.currentRound + 1
    /\ ~state'.isThinking

C28_PastRoundFiveConcludes ==
    [][\A q \in seqs :
        (q.state.currentRound > 5 /\ (OrchestratorDecides(q) \/ OrchestratorFails(q))) =>
            /\ state'.phase = VOTING
            /\ state'.currentTurnAgentId = NULL]_vars

\* advanceTurn has run in this step, on the state the step's other updates produced
Rotates ==
    state' = advanceTurn([state' EXCEPT !.phase = state.phase,
                                        !.currentRound = state.currentRound,
                                        !.currentTurnAgentId = state.currentTurnAgentId,
                                        !.isThinking = state.isThinking,
                                        !.thinkingAgentId = state.thinkingAgentId])

\* the step neither suspends the engine nor touches transcript, phase or turn
NotSuspended ==
    /\ state'.pendingUserQuestion = state.pendingUserQuestion
    /\ state'.showConsultationPrompt = state.showConsultationPrompt
    /\ state.phase # USER_INPUT => state'.phase # USER_INPUT

\* C29: a turn whose generation returns the search_web tool call stays one invocation:
\* the tool call and the search result append nothing and change neither phase nor
\* turn nor pending question, the invocation goes on to the tool-resume generation,
\* and when that returns exactly one message by the turn's agent is appended and
\* advanceTurn runs; the phase does not become USER_INPUT at any of these steps.
C29_SearchCompletesWithinTurn ==
    [][\A q \in seqs :
        /\ (TurnSearches(q) \/ SearchResult(q)) =>
            /\ NotSuspended
            /\ state'.transcript = state.transcript
            /\ state'.phase = state.phase
            /\ state'.currentTurnAgentId = state.currentTurnAgentId
            /\ \E q2 \in seqs' : seqs' = {q2} /\ q2.agent = q.agent /\ processingRef'
        /\ (SearchResumeResult(q) /\ deviations' = deviations) =>
            /\ NotSuspended
            /\ AppendsOne
            /\ LastMessage(state').agentId = q.agent
            /\ Rotates
            /\ seqs' = {} /\ ~processingRef']_vars

\* a1's opening turn searched the web and was completed: its one message is in the
\* transcript, no question is pending and the turn is a2's
C29_SearchTurnCompleted ==
    /\ Len(agents) = 2 /\ overrides = 0 /\ deviations = 1
    /\ pendingToolCallRef = "search_web" /\ seqs = {}
    /\ Len(state.transcript) = 1 /\ state.transcript[1].agentId = agents[1]
    /\ state.phase = OPENING /\ state.currentTurnAgentId = agents[2]
    /\ state.pendingUserQuestion = NULL /\ ~state.isThinking

-----------------------------------------------------------------------------
(* C30 *)

\* response.text with no usable verdict in it: text JSON.parse rejects, no
\* text at all, or JSON that is no object
MalformedOrMissing(text) == text.form # "object"

\* the verdict call of the voting pass returns in this step
VerdictReturns(q) ==
    VerdictResult(q) /\ verdictText = <<>> /\ verdictText' # <<>>

DefaultVerdict(votes) ==
    [winnerId |-> agents[1], summary |-> "Debate concluded.",
     keyTakeaways |-> <<>>, votes |-> votes]

\* C30: when the verdict call returns output that is malformed or missing,
\* the debate still reaches VERDICT, with the default verdict: the first agent
\* of the roster as winner, the generic summary, no takeaways, and the votes
\* collected by the pass.
C30_MalformedOutputDefaultVerdict ==
    [][\A q \in seqs :
        (VerdictReturns(q) /\ MalformedOrMissing(verdictText'[1]))
        => /\ state'.phase = VERDICT
           /\ state'.finalVerdict = <<DefaultVerdict(q.votes)>>]_vars

-----------------------------------------------------------------------------
(* C31 *)

\* the turn leaves the roster agent that holds it
TurnLeaves(i) ==
    /\ i \in 1..Len(agents)
    /\ state.currentTurnAgentId = agents[i]
    /\ state'.currentTurnAgentId # agents[i]

\* nothing has disturbed the debate: no director override, no stop request, no
\* reload, no follow-up
Undisturbed == Started /\ overrides' = 0

\* C31: without director overrides or a stop request the turn passes from each agent
\* to the next one of the list within the same phase; the phase changes only when the
\* turn leaves the last agent, OPENING to REBUTTAL and REBUTTAL to SYNTHESIS with the
\* first agent next, also in a pass in which a turn was suspended by a user question.
C31_EveryAgentOncePerPass ==
    [][Undisturbed =>
        /\ \A i \in 1..(Len(agents) - 1) :
              TurnLeaves(i) => /\ state'.currentTurnAgentId = agents[i + 1]
                               /\ state'.phase = state.phase
        /\ TurnLeaves(Len(agents)) =>
              \/ state.phase = OPENING /\ state'.phase = REBUTTAL
                 /\ state'.currentTurnAgentId = agents[1]
              \/ state.phase = REBUTTAL /\ state'.phase = SYNTHESIS
                 /\ state'.currentTurnAgentId = agents[1]
              \/ state.phase = SYNTHESIS
        /\ (state.phase \in {OPENING, REBUTTAL} /\ state'.phase \notin {state.phase, USER_INPUT})
              => TurnLeaves(Len(agents))]_vars

-----------------------------------------------------------------------------
(* C32 *)

\* the human answers a question raised by an agent in this step
AgentQuestionAnswered ==
    /\ HandleUserAnswer
    /\ state.pendingUserQuestion # NULL
    /\ state.thinkingAgentId \notin {NULL, CHAIRPERSON}

\* C32: the answer to a question raised by an agent returns the phase to a debate
\* phase (OPENING, REBUTTAL or SYNTHESIS), and the phase is never USER_INPUT after a
\* step that leaves no question pending.
C32_AnswerRestoresDebatePhase ==
    [][/\ AgentQuestionAnswered => state'.phase \in {OPENING, REBUTTAL, SYNTHESIS}
       /\ state'.pendingUserQuestion = NULL => state'.phase # USER_INPUT]_vars

-----------------------------------------------------------------------------
(* C33 *)

\* handleUserAnswer acts on the state, and the UserModal that calls it is rendered
Answerable(s) == s.pendingUserQuestion # NULL /\ s.thinkingAgentId # NULL

\* C33: a pending user question is cleared by the human's answer and by nothing else,
\* and whenever a question is pending an answer can be submitted and is accepted.
C33_PendingQuestionAnswerable ==
    [][/\ (state.pendingUserQuestion # NULL /\ state'.pendingUserQuestion = NULL)
            => (HandleUserAnswer /\ Answerable(state))
       /\ state'.pendingUserQuestion # NULL => Answerable(state')]_vars

-----------------------------------------------------------------------------
(* C34 *)

\* the tool-resume generations started by this step
ResumesStarted == {q \in seqs' \ seqs : q.pc = "resume"}

\* the tool-resume generation q returns text in this step
ResumeReturns(q) ==
    ToolResumeResult(q) /\ Len(state'.transcript) = Len(state.transcript) + 1

\* C34: the tool-resume generation that follows the human's answer is started for the
\* agent that raised the question (thinkingAgentId, the agent the question is shown
\* for), and its message is attributed to that agent, whatever the director did while
\* the question was pending.
C34_ResumeForAskingAgent ==
    [][/\ \A q \in ResumesStarted : q.agent = state.thinkingAgentId
       /\ \A q \in seqs : ResumeReturns(q) => LastMessage(state').agentId = q.agent]_vars

-----------------------------------------------------------------------------
(* C35 *)

\* the error that failed the attempt is one the claim says is propagated: any error
\* of the OpenRouter path, and on the Google path one the catch clause does not take
\* for a rate-limit or overload signal
Propagated(error) == currentConfig.provider = "OPENROUTER" \/ ~IsRateLimit(error)

\* C35: an attempt that fails with a non-transient error of the primary provider, or
\* with any error of the secondary provider, throws that error to the caller at once:
\* no wait and no further attempt follow it, and when it is the call's first failure
\* the call has made exactly one attempt and waited for nothing.
C35_OtherErrorsPropagateAtOnce ==
    [][\A c \in seqs : \A c2 \in seqs' \ seqs :
        /\ c.pc = "thrown" => FALSE
        /\ (deviations' = deviations + 1 /\ Propagated(c2.error[1])) =>
            /\ c2.pc = "thrown"
            /\ c2.attempts = c.attempts /\ c2.waited = c.waited
            /\ deviations = 0 => (c2.attempts = 1 /\ c2.waited = <<>>)]_vars

\* the secondary provider answered the only attempt with a rate-limit message and the
\* error was thrown
C35_SecondaryRateLimitThrown ==
    /\ currentConfig.provider = "OPENROUTER"
    /\ \E c \in seqs :
        /\ c.pc = "thrown" /\ c.attempts = 1 /\ c.waited = <<>>
        /\ c.error # <<>> /\ IsRateLimit(c.error[1])

-----------------------------------------------------------------------------
(* C36 *)

\* control returns from the orchestrator to a new REBUTTAL pass in this step, which is
\* no intervention of the director: after guidance, a guest's turn, a consultation
\* (declined, or answered) or a failed decision
ReturnsFromOrchestrator ==
    /\ state.mode = "AUTO"
    /\ state.currentTurnAgentId = ORCHESTRATOR
    /\ state'.currentTurnAgentId # ORCHESTRATOR /\ state'.phase = REBUTTAL
    /\ overrides' = overrides

\* C36: in AUTO mode every return of control from the orchestrator to a new REBUTTAL
\* pass increases currentRound by exactly 1 and gives the turn to the first agent.
C36_EveryReturnOpensNextRound ==
    [][ReturnsFromOrchestrator =>
        /\ state'.currentRound = state.currentRound + 1
        /\ state'.currentTurnAgentId = agents[1]]_vars

-----------------------------------------------------------------------------
(* C37 *)

\* the successor of agent a in the list, for an agent that is not the last one
Following(a) == agents[findIndex(a) + 1]

\* q is a generation whose turn the director skipped: the debate's one intervention so
\* far moved the turn from q's agent to the following agent of the same pass while q
\* was in flight (a forced phase gives the turn to the first agent, never to a
\* following one)
SkippedInFlight(q) ==
    /\ q.pc \in {"turn", "searchResume"}
    /\ overrides = 1 /\ ~state.userRequestedStop
    /\ findIndex(q.agent) \in 1..(Len(agents) - 1)
    /\ state.currentTurnAgentId = Following(q.agent)
    /\ state.phase = q.state.phase

\* C37: a skip-turn pressed during the turn of an agent that is not the last gives the
\* turn to the following agent, and when the result of the skipped generation arrives
\* later the turn and the phase stay where the skip put them: the following agent's
\* turn and the end of the pass are not passed over.
C37_SkipTurnMovesOneAgent ==
    [][/\ (HandleDirectorSkipTurn /\ ~state.userRequestedStop
            /\ findIndex(state.currentTurnAgentId) \in 1..(Len(agents) - 1))
          => /\ state'.currentTurnAgentId = Following(state.currentTurnAgentId)
             /\ state'.phase = state.phase
       /\ \A q \in seqs :
            (SkippedInFlight(q) /\ (TurnText(q) \/ SearchResumeResult(q)))
            => /\ state'.currentTurnAgentId = state.currentTurnAgentId
               /\ state'.phase = state.phase]_vars

-----------------------------------------------------------------------------
(* C38 *)

\* C38: from a state whose phase is VOTING, as after the director forced VOTING, every
\* step that is not a further intervention leaves the phase VOTING or makes it
\* VERDICT: the result of a call that was in flight (agent turn, user-question tool,
\* orchestrator decision, guest turn) moves it neither back to a debating phase nor
\* to USER_INPUT.
C38_ForcedVotingStays ==
    [][(state.phase = VOTING /\ overrides' = overrides)
        => state'.phase \in {VOTING, VERDICT}]_vars

-----------------------------------------------------------------------------
(* C39 *)

\* the orchestrator's decision, or the failure of its call, is applied in this step
DecisionApplied(q) == OrchestratorDecides(q) \/ OrchestratorFails(q)

\* C39: when a stop is requested at the time the orchestrator's decision is applied,
\* also one requested while the call was in flight and also when the call fails, the
\* step concludes: phase VOTING, no turn, no guest summoned.
C39_StopConcludesAtDecision ==
    [][\A q \in seqs :
        (DecisionApplied(q) /\ state.userRequestedStop)
        => /\ state'.phase = VOTING
           /\ state'.currentTurnAgentId = NULL
           /\ ~state'.summonedGuest]_vars

-----------------------------------------------------------------------------
(* C40 *)

\* C40: the winnerId of the final verdict is the id of an agent of the roster.
C40_WinnerIsRosterAgent ==
    state.finalVerdict # <<>> => state.finalVerdict[1].winnerId \in RosterIds

====
